---------------------------- MODULE Spec2Model ----------------------------
(***************************************************************************)
(* A model of the doc_editor formatting pipeline and of its processors.    *)
(*                                                                         *)
(* Texts are sequences of one-character strings, so that strip(), find(),  *)
(* split(), int() and float() are computed character by character, as      *)
(* Python computes them.  Lengths are integers in EMU, as in docx.shared.  *)
(* A document is a record of body paragraphs, sections and style names;    *)
(* documents live in a heap `docs` indexed by object identity.             *)
(***************************************************************************)
EXTENDS Integers, Sequences, FiniteSets, TLC

VARIABLES
    docs,             \* heap of Document objects: object id -> document
    self_doc,         \* the object id the pipeline / processor works on
    input,            \* the document as it was handed in (ghost, never written)
    config,           \* DocumentConfig
    add_title_page,   \* the argument of DocumentPipeline.execute
    fs,               \* working directory: file name -> saved document
    pc,               \* position of the running operation
    calls,            \* processors invoked so far, in order, with their document
    raised,           \* exception that left the operation ("none" if none)
    section_numbers,  \* SectionProcessor.section_numbers
    cursor,           \* index of the paragraph the numbering loop is at
    result            \* value returned by a function called on its own (<<>> if none)

vars == <<docs, self_doc, input, config, add_title_page, fs, pc, calls, raised,
          section_numbers, cursor, result>>

-----------------------------------------------------------------------------
(* Bounds of the model.                                                    *)

MaxParas == 3
MaxSections == 2
MaxIndex == 705
MaxApplies == 3

-----------------------------------------------------------------------------
(* Python string primitives on sequences of characters.                    *)

DigitChars == <<"0", "1", "2", "3", "4", "5", "6", "7", "8", "9">>

IsDigit(c) == \E i \in 1..10 : DigitChars[i] = c

DigitVal(c) == (CHOOSE i \in 1..10 : DigitChars[i] = c) - 1

IsSpace(c) == c \in {" ", "\n", "\t"}

RECURSIVE LStrip(_)
LStrip(s) == IF s # <<>> /\ IsSpace(Head(s)) THEN LStrip(Tail(s)) ELSE s

RECURSIVE RStrip(_)
RStrip(s) ==
    IF s # <<>> /\ IsSpace(s[Len(s)]) THEN RStrip(SubSeq(s, 1, Len(s) - 1)) ELSE s

\* str.strip()
Strip(s) == RStrip(LStrip(s))

\* str.find(c): 0-based index of the first c, -1 when there is none
Find(s, c) ==
    IF \E i \in 1..Len(s) : s[i] = c
    THEN (CHOOSE i \in 1..Len(s) : s[i] = c /\ \A j \in 1..(i - 1) : s[j] # c) - 1
    ELSE -1

\* str.split(sep) for a one-character separator
RECURSIVE Split(_, _)
Split(s, sep) ==
    LET k == Find(s, sep)
    IN IF k = -1 THEN <<s>>
       ELSE <<SubSeq(s, 1, k)>> \o Split(SubSeq(s, k + 2, Len(s)), sep)

\* sep.join(parts)
RECURSIVE Join(_, _)
Join(parts, sep) ==
    IF parts = <<>> THEN <<>>
    ELSE IF Len(parts) = 1 THEN parts[1]
    ELSE parts[1] \o sep \o Join(Tail(parts), sep)

Min(a, b) == IF a <= b THEN a ELSE b

AllDigits(s) == s # <<>> /\ \A i \in 1..Len(s) : IsDigit(s[i])

RECURSIVE DigitsValue(_)
DigitsValue(s) ==
    IF s = <<>> THEN 0
    ELSE 10 * DigitsValue(SubSeq(s, 1, Len(s) - 1)) + DigitVal(s[Len(s)])

\* int(s) on a token without blanks: the value, or ValueError
ParseInt(s) ==
    IF AllDigits(s) THEN [ok |-> TRUE, value |-> DigitsValue(s)]
    ELSE [ok |-> FALSE, value |-> 0]

\* str(n) for n >= 0
RECURSIVE IntToStr(_)
IntToStr(n) ==
    IF n < 10 THEN <<DigitChars[n + 1]>>
    ELSE IntToStr(n \div 10) \o <<DigitChars[(n % 10) + 1]>>

-----------------------------------------------------------------------------
(* The document object model (python-docx), as far as the processors read  *)
(* and write it.                                                           *)

\* Paragraph.text: the run texts, concatenated
RECURSIVE RunsText(_)
RunsText(runs) == IF runs = <<>> THEN <<>> ELSE Head(runs).text \o RunsText(Tail(runs))

Text(p) == RunsText(p.runs)

\* a paragraph as add_paragraph(text, style) / insert_paragraph_before(text)
\* builds it: one run holding the text, no run for an empty text
NewParagraph(text, style) ==
    [style |-> style,
     runs |-> IF text = <<>> THEN <<>> ELSE <<[text |-> text, bold |-> FALSE, font |-> "none"]>>]

Texts(paragraphs) == [i \in 1..Len(paragraphs) |-> Text(paragraphs[i])]

-----------------------------------------------------------------------------
(* DocumentConfig (models/config.py), with the dataclass defaults.         *)

S_20mm == <<"2", "0", "m", "m">>
S_10mm == <<"1", "0", "m", "m">>
\* TOCConfig.title default, one symbol standing for the Cyrillic word
S_TocTitle == <<"OGLAVLENIE">>

DefaultConfig ==
    [margins |-> [left |-> S_20mm, right |-> S_10mm, top |-> S_20mm, bottom |-> S_20mm],
     fonts |-> {"main"},
     headerNum |-> 3,
     spacing |-> [exceptions |-> <<>>],
     title_page |-> [enabled |-> TRUE],
     headers |-> [left |-> <<>>, right |-> <<>>, page_numbers |-> FALSE, enabled |-> FALSE,
                  right_parts |-> <<>>, left_parts |-> <<>>],
     sections |-> [enabled |-> TRUE],
     toc |-> [enabled |-> FALSE, title |-> S_TocTitle, page_numbers |-> TRUE, levels |-> 3],
     preface |-> [enabled |-> FALSE, content |-> <<>>],
     appendix |-> [enabled |-> FALSE, numbering_style |-> "letters"]]

-----------------------------------------------------------------------------
(* SectionProcessor (processors/section_processor.py).                     *)

HEADING_LEVELS == ("Heading 1" :> 0) @@ ("Heading 2" :> 1) @@ ("Heading 3" :> 2)

reset_numbering == <<0, 0, 0>>

_update_section_number_skip_reset(numbers, level) ==
    [numbers EXCEPT ![level + 1] = @ + 1]

_update_section_number_without_increment(numbers, level) ==
    [i \in 1..Len(numbers) |-> IF i > level + 1 THEN 0 ELSE numbers[i]]

\* increments the counter of the level and zeroes every deeper one
_update_section_number(numbers, level) ==
    [i \in 1..Len(numbers) |->
        IF i = level + 1 THEN numbers[i] + 1
        ELSE IF i > level + 1 THEN 0
        ELSE numbers[i]]

_get_section_number_from_one(numbers, level) ==
    Join([i \in 1..(level + 1) |-> IntToStr(IF numbers[i] = 0 THEN 1 ELSE numbers[i])], <<".">>)

\* ".".join(str(n) for n in section_numbers[:level + 1])
_get_section_number(numbers, level) ==
    Join([i \in 1..(level + 1) |-> IntToStr(numbers[i])], <<".">>)

\* the loop `for i, part in enumerate(parts[:level + 1]): numbers[i] = int(part)`:
\* counters are assigned one by one, a ValueError stops the loop where it is
RECURSIVE LoadParts(_, _, _)
LoadParts(parts, i, numbers) ==
    IF i > Len(parts) THEN [ok |-> TRUE, numbers |-> numbers]
    ELSE LET v == ParseInt(parts[i])
         IN IF v.ok THEN LoadParts(parts, i + 1, [numbers EXCEPT ![i] = v.value])
            ELSE [ok |-> FALSE, numbers |-> numbers]

_parse_and_update_incrementing(text, level, numbers) ==
    _update_section_number(numbers, level)

_parse_and_update_from_existing(text, level, numbers) ==
    LET space_idx == Find(text, " ")
    IN IF space_idx = -1 THEN numbers
       ELSE LET number_str == SubSeq(text, 1, space_idx)
                parts == Split(number_str, ".")
                taken == SubSeq(parts, 1, Min(level + 1, Len(parts)))
                loaded == LoadParts(taken, 1, numbers)
            IN IF loaded.ok
               THEN [i \in 1..Len(numbers) |->
                        IF i > level + 1 THEN 0 ELSE loaded.numbers[i]]
               ELSE loaded.numbers

\* run.clear() keeps the run and empties it
ClearRuns(runs) == [i \in 1..Len(runs) |-> [runs[i] EXCEPT !.text = <<>>]]

_process_heading_always_numbering(paragraph, level, numbers) ==
    LET current_text == Strip(Text(paragraph))
        updated == _update_section_number(numbers, level)
        section_num == _get_section_number(updated, level)
    IN [paragraph |->
            [paragraph EXCEPT !.runs =
                ClearRuns(@) \o <<[text |-> section_num \o <<" ">>, bold |-> TRUE, font |-> "none"],
                                  [text |-> current_text, bold |-> TRUE, font |-> "none"]>>],
        numbers |-> updated]

\* one heading: the new paragraph and the new counter vector
_process_heading(paragraph, level, numbers) ==
    LET current_text == Strip(Text(paragraph))
    IN IF current_text # <<>> /\ IsDigit(Head(current_text))
       THEN [paragraph |-> paragraph,
             numbers |-> _parse_and_update_from_existing(current_text, level, numbers)]
       ELSE LET updated == _update_section_number(numbers, level)
                section_num == _get_section_number(updated, level)
            IN [paragraph |->
                    [paragraph EXCEPT !.runs =
                        ClearRuns(@) \o <<[text |-> section_num \o <<" ">>, bold |-> TRUE, font |-> "none"],
                                          [text |-> current_text, bold |-> TRUE, font |-> "none"]>>],
                numbers |-> updated]

Document == docs[self_doc]

\* apply_section_numbering, entry: the enabled check and the reset
SectionStart_keeping_counters ==
    /\ pc = "section_idle"
    /\ IF ~config.sections.enabled
       THEN /\ pc' = "section_done"
            /\ UNCHANGED <<section_numbers, cursor>>
       ELSE /\ section_numbers' = section_numbers
            /\ cursor' = 1
            /\ pc' = "section_scan"
    /\ calls' = Append(calls, [stage |-> "SectionProcessor", doc |-> self_doc])
    /\ UNCHANGED <<docs, self_doc, input, config, add_title_page, result, fs, raised>>

SectionStart ==
    /\ pc = "section_idle"
    /\ IF ~config.sections.enabled
       THEN /\ pc' = "section_done"
            /\ UNCHANGED <<section_numbers, cursor>>
       ELSE /\ section_numbers' = reset_numbering
            /\ cursor' = 1
            /\ pc' = "section_scan"
    /\ calls' = Append(calls, [stage |-> "SectionProcessor", doc |-> self_doc])
    /\ UNCHANGED <<docs, self_doc, input, config, add_title_page, result, fs, raised>>

SectionStep_every_paragraph ==
    /\ pc = "section_scan"
    /\ cursor <= Len(Document.paragraphs)
    /\ LET paragraph == Document.paragraphs[cursor]
           level == IF paragraph.style \in DOMAIN HEADING_LEVELS
                    THEN HEADING_LEVELS[paragraph.style] ELSE 0
           r == _process_heading(paragraph, level, section_numbers)
       IN /\ docs' = [docs EXCEPT ![self_doc].paragraphs[cursor] = r.paragraph]
          /\ section_numbers' = r.numbers
    /\ cursor' = cursor + 1
    /\ UNCHANGED <<self_doc, input, config, add_title_page, result, fs, pc, calls, raised>>

\* apply_section_numbering, one iteration of `for paragraph in document.paragraphs`
SectionStep ==
    /\ pc = "section_scan"
    /\ cursor <= Len(Document.paragraphs)
    /\ LET paragraph == Document.paragraphs[cursor]
       IN IF paragraph.style \notin DOMAIN HEADING_LEVELS
          THEN UNCHANGED <<docs, section_numbers>>
          ELSE LET r == _process_heading(paragraph, HEADING_LEVELS[paragraph.style],
                                         section_numbers)
               IN /\ docs' = [docs EXCEPT ![self_doc].paragraphs[cursor] = r.paragraph]
                  /\ section_numbers' = r.numbers
    /\ cursor' = cursor + 1
    /\ UNCHANGED <<self_doc, input, config, add_title_page, result, fs, pc, calls, raised>>

\* apply_section_numbering, the loop is exhausted
SectionFinish ==
    /\ pc = "section_scan"
    /\ cursor > Len(Document.paragraphs)
    /\ pc' = "section_done"
    /\ UNCHANGED <<docs, self_doc, input, config, add_title_page, result, fs, calls, raised, section_numbers, cursor>>

-----------------------------------------------------------------------------
(* Documents the section-numbering runs start from.                        *)

EmptyFs == [f \in {"temp_with_styles.docx", "doc_with_title.docx", "temp_title.docx"} |->
               <<>>]

\* the section a Document() of the default template has: Letter, 1in / 1.25in
DefaultSection ==
    [left_margin |-> 1143000, right_margin |-> 1143000,
     top_margin |-> 914400, bottom_margin |-> 914400,
     different_first_page_header_footer |-> FALSE,
     header |-> <<>>, even_page_header |-> <<>>, first_page_header |-> <<>>,
     footer |-> <<>>, even_page_footer |-> <<>>, first_page_footer |-> <<>>]

BodyDocument(paragraphs) ==
    [paragraphs |-> paragraphs,
     sections |-> <<DefaultSection>>,
     styles |-> <<"Normal", "Heading 1", "Heading 2", "Heading 3">>,
     odd_and_even_pages_header_footer |-> FALSE]

\* heading texts: plain, padded with blanks, numbered, numbered without a title,
\* numbered after a blank, starting with a digit that is no number, and empty
T_a == <<"a">>
T_pad_a == <<" ", "a", " ">>
T_1_a == <<"1", " ", "a">>
T_21_a == <<"2", ".", "1", " ", "a">>
T_121_b == <<"1", ".", "2", ".", "1", " ", "b">>
T_21_blank == <<"2", ".", "1", " ">>
T_blank_1_a == <<" ", "1", " ", "a">>
T_1x_a == <<"1", ".", "x", " ", "a">>
T_3b == <<"3", "b">>

CommonTexts == {T_a, T_pad_a, T_21_a}
EdgeTexts == {T_1_a, T_121_b, T_21_blank, T_blank_1_a, T_1x_a, T_3b, <<>>}
HeadingStyles == {"Heading 1", "Heading 2", "Heading 3"}

CommonParagraphs ==
    {NewParagraph(t, st) : t \in CommonTexts, st \in HeadingStyles}
        \cup {NewParagraph(T_a, "Normal"), NewParagraph(T_1_a, "Heading 4")}

EdgeParagraphs == {NewParagraph(t, st) : t \in EdgeTexts, st \in HeadingStyles}

SeqsUpTo(S, n) == UNION {[1..k -> S] : k \in 0..n}

\* complex_document of test_section_processor.py trimmed to the depths
\* [0,1,2,1,0,1] of the specification's example
ExampleDepthDoc ==
    <<NewParagraph(T_a, "Heading 1"), NewParagraph(T_a, "Heading 2"),
      NewParagraph(T_a, "Heading 3"), NewParagraph(T_a, "Heading 2"),
      NewParagraph(T_a, "Heading 1"), NewParagraph(T_a, "Heading 2")>>

SectionInputs ==
    SeqsUpTo(CommonParagraphs, MaxParas)
        \cup {p \o <<e>> \o q : p \in SeqsUpTo(CommonParagraphs, 1),
                                e \in EdgeParagraphs,
                                q \in SeqsUpTo(CommonParagraphs, 1)}
        \cup {ExampleDepthDoc}

InitSection ==
    /\ \E ps \in SectionInputs :
          /\ docs = <<BodyDocument(ps)>>
          /\ input = BodyDocument(ps)
    /\ self_doc = 1
    /\ add_title_page = FALSE
    /\ \E en \in BOOLEAN : config = [DefaultConfig EXCEPT !.sections.enabled = en]
    /\ fs = EmptyFs
    /\ pc = "section_idle"
    /\ calls = <<>>
    /\ raised = "none"
    /\ section_numbers = <<0, 0, 0>>
    /\ cursor = 0
    /\ result = <<>>

NextSection == SectionStart \/ SectionStep \/ SectionFinish

SpecSection == InitSection /\ [][NextSection]_vars

-----------------------------------------------------------------------------
(* apply_section_numbering applied to a document and then once more to the *)
(* document it left; the caller keeps a copy of the first outcome.         *)

SectionAgain ==
    /\ pc = "section_done"
    /\ result = <<>>
    /\ result' = <<Document>>
    /\ pc' = "section_idle"
    /\ UNCHANGED <<docs, self_doc, input, config, add_title_page, fs, calls, raised,
                   section_numbers, cursor>>

NextSectionTwice == SectionStart \/ SectionStep \/ SectionFinish \/ SectionAgain

SpecSectionTwice == InitSection /\ [][NextSectionTwice]_vars

-----------------------------------------------------------------------------
(* One SectionProcessor given one document after another: the counters of  *)
(* the instance live on between the calls of apply_section_numbering.      *)

MaxDocuments == 2
MaxRunParas == 2

RunParagraphs ==
    {NewParagraph(T_a, "Heading 1"), NewParagraph(T_a, "Heading 2"),
     NewParagraph(T_21_a, "Heading 2")}

LaterDocuments ==
    {<<NewParagraph(T_a, "Heading 1")>>,
     <<NewParagraph(T_a, "Heading 2"), NewParagraph(T_a, "Heading 1")>>,
     <<NewParagraph(T_a, "Normal"), NewParagraph(T_a, "Heading 3")>>}

\* the caller builds another document and hands it to the same processor
SectionNextDocument ==
    /\ pc = "section_done"
    /\ Len(docs) < MaxDocuments
    /\ \E ps \in LaterDocuments :
          /\ docs' = Append(docs, BodyDocument(ps))
          /\ input' = BodyDocument(ps)
    /\ self_doc' = Len(docs) + 1
    /\ pc' = "section_idle"
    /\ UNCHANGED <<config, add_title_page, result, fs, calls, raised, section_numbers, cursor>>

InitSectionRuns ==
    /\ \E ps \in SeqsUpTo(RunParagraphs, MaxRunParas) :
          /\ docs = <<BodyDocument(ps)>>
          /\ input = BodyDocument(ps)
    /\ self_doc = 1
    /\ add_title_page = FALSE
    /\ \E en \in BOOLEAN : config = [DefaultConfig EXCEPT !.sections.enabled = en]
    /\ fs = EmptyFs
    /\ pc = "section_idle"
    /\ calls = <<>>
    /\ raised = "none"
    /\ section_numbers = <<0, 0, 0>>
    /\ cursor = 0
    /\ result = <<>>

NextSectionRuns == SectionStart \/ SectionStep \/ SectionFinish \/ SectionNextDocument

SpecSectionRuns == InitSectionRuns /\ [][NextSectionRuns]_vars

-----------------------------------------------------------------------------
(* Claims about section numbering.                                         *)

IsHeading(p) == p.style \in HeadingStyles

Depth(p) == CASE p.style = "Heading 1" -> 0
              [] p.style = "Heading 2" -> 1
              [] p.style = "Heading 3" -> 2

\* the counter of depth j after the i-th paragraph of an unnumbered document:
\* the headings of depth j met since the last heading shallower than j
CountAt(ps, i, j) ==
    Cardinality({k \in 1..i :
        /\ IsHeading(ps[k])
        /\ Depth(ps[k]) = j
        /\ \A m \in k..i : IsHeading(ps[m]) => Depth(ps[m]) >= j})

ExpectedNumber(ps, i) ==
    Join([j \in 1..(Depth(ps[i]) + 1) |-> IntToStr(CountAt(ps, i, j - 1))], <<".">>)

StartsWithDigit(t) == t # <<>> /\ IsDigit(Head(t))

SectionRunDone == pc = "section_done" /\ config.sections.enabled

ExampleNumbered ==
    << <<"1", " ", "a">>,
       <<"1", ".", "1", " ", "a">>,
       <<"1", ".", "1", ".", "1", " ", "a">>,
       <<"1", ".", "2", " ", "a">>,
       <<"2", " ", "a">>,
       <<"2", ".", "1", " ", "a">> >>

\* C5 (as amended): in a document none of whose headings starts with a digit
\* once surrounding blanks are stripped, every heading at depth d ends up as
\* "<number> <stripped text>", the number being counters[0..d] joined by "."
\* after incrementing counter d and zeroing the deeper ones; the depths
\* [0,1,2,1,0,1] give 1, 1.1, 1.1.1, 1.2, 2, 2.1.
C5_SectionNumbers ==
    (SectionRunDone
        /\ \A i \in 1..Len(input.paragraphs) :
              IsHeading(input.paragraphs[i])
                  => ~StartsWithDigit(Strip(Text(input.paragraphs[i]))))
    => /\ Len(Document.paragraphs) = Len(input.paragraphs)
       /\ \A i \in 1..Len(input.paragraphs) :
             IsHeading(input.paragraphs[i])
                 => Text(Document.paragraphs[i])
                        = ExpectedNumber(input.paragraphs, i) \o <<" ">>
                              \o Strip(Text(input.paragraphs[i]))
       /\ input.paragraphs = ExampleDepthDoc
             => Texts(Document.paragraphs) = ExampleNumbered

C5_Witness ==
    /\ SectionRunDone
    /\ input.paragraphs = ExampleDepthDoc
    /\ Texts(Document.paragraphs) = ExampleNumbered

\* C5 as stated: the test is on the text as it stands and the text is kept whole
C5_Original ==
    (SectionRunDone
        /\ \A i \in 1..Len(input.paragraphs) :
              IsHeading(input.paragraphs[i])
                  => ~StartsWithDigit(Text(input.paragraphs[i])))
    => \A i \in 1..Len(input.paragraphs) :
          IsHeading(input.paragraphs[i])
              => Text(Document.paragraphs[i])
                     = ExpectedNumber(input.paragraphs, i) \o <<" ">>
                           \o Text(input.paragraphs[i])

LeadingToken(t) == SubSeq(t, 1, Find(t, " "))

IsSectionToken(tok) ==
    LET parts == Split(tok, ".")
    IN Len(parts) \in 1..3 /\ \A i \in 1..Len(parts) : AllDigits(parts[i])

TokenValues(tok) ==
    LET parts == Split(tok, ".") IN [i \in 1..Len(parts) |-> DigitsValue(parts[i])]

\* what the claim says of a heading whose token is tok, scanned at `cursor`
LoadsToken(tok) ==
    LET d == Depth(Document.paragraphs[cursor])
        v == TokenValues(tok)
    IN /\ docs' = docs
       /\ \A i \in 1..3 :
             section_numbers'[i] =
                 IF i > d + 1 THEN 0
                 ELSE IF i <= Len(v) THEN v[i]
                 ELSE section_numbers[i]
       /\ (tok = <<"2", ".", "1">> /\ d = 1) => section_numbers' = <<2, 1, 0>>

ScansHeading ==
    /\ pc = "section_scan"
    /\ cursor <= Len(Document.paragraphs)
    /\ cursor' = cursor + 1
    /\ IsHeading(Document.paragraphs[cursor])

\* C6 (as amended): a heading at depth d whose stripped text starts with a
\* digit and consists of a token N, N.M or N.M.K, a space and further text
\* loads the token's values into counters[0..d], zeroes the counters below
\* d, increments none and keeps its text; "2.1 a" at depth 1 leaves [2,1,0].
C6_LoadsExistingNumber ==
    [][ LET t == Strip(Text(Document.paragraphs[cursor]))
        IN (ScansHeading /\ StartsWithDigit(t) /\ Find(t, " ") # -1
                /\ IsSectionToken(LeadingToken(t)))
           => LoadsToken(LeadingToken(t)) ]_vars

C6_Witness ==
    /\ pc = "section_scan"
    /\ cursor = 2
    /\ input.paragraphs[1] = NewParagraph(T_21_a, "Heading 2")
    /\ Document.paragraphs[1] = input.paragraphs[1]
    /\ section_numbers = <<2, 1, 0>>

\* C6 as stated: the token is the text up to the first space of the heading
C6_Original ==
    [][ LET t == Text(Document.paragraphs[cursor])
        IN (ScansHeading /\ StartsWithDigit(t) /\ Find(t, " ") # -1
                /\ IsSectionToken(LeadingToken(t)))
           => LoadsToken(LeadingToken(t)) ]_vars

-----------------------------------------------------------------------------
(* parse_measurement (utils.py) and the lengths of docx.shared.            *)

UpperChars ==
    <<"A", "B", "C", "D", "E", "F", "G", "H", "I", "J", "K", "L", "M",
      "N", "O", "P", "Q", "R", "S", "T", "U", "V", "W", "X", "Y", "Z">>

LowerChars ==
    <<"a", "b", "c", "d", "e", "f", "g", "h", "i", "j", "k", "l", "m",
      "n", "o", "p", "q", "r", "s", "t", "u", "v", "w", "x", "y", "z">>

\* str.lower()
Lower(s) ==
    [i \in 1..Len(s) |->
        IF \E k \in 1..26 : UpperChars[k] = s[i]
        THEN LowerChars[CHOOSE k \in 1..26 : UpperChars[k] = s[i]]
        ELSE s[i]]

EndsWith(s, suffix) ==
    Len(s) >= Len(suffix) /\ SubSeq(s, Len(s) - Len(suffix) + 1, Len(s)) = suffix

DropLast(s, n) == SubSeq(s, 1, Len(s) - n)

RECURSIVE Pow10(_)
Pow10(n) == IF n = 0 THEN 1 ELSE 10 * Pow10(n - 1)

\* float(s) on unsigned decimal notation: blanks around the number are
\* ignored, "inf" and "nan" are numbers, anything else is a ValueError.
\* A number is kept as mant / 10^frac.
FloatOf(s) ==
    LET t == Strip(s)
        parts == Split(t, ".")
        whole == parts[1]
        fraction == IF Len(parts) = 2 THEN parts[2] ELSE <<>>
        digits == whole \o fraction
    IN IF t = <<"i", "n", "f">> THEN [kind |-> "inf", mant |-> 0, frac |-> 0]
       ELSE IF t = <<"n", "a", "n">> THEN [kind |-> "nan", mant |-> 0, frac |-> 0]
       ELSE IF Len(parts) <= 2 /\ AllDigits(digits)
       THEN [kind |-> "number", mant |-> DigitsValue(digits), frac |-> Len(fraction)]
       ELSE [kind |-> "ValueError", mant |-> 0, frac |-> 0]

\* Length subclasses: int(value * EMU per unit); int(nan) is a ValueError,
\* int(inf) an OverflowError
EmuPerUnit(unit) ==
    CASE unit = "mm" -> 36000
      [] unit = "cm" -> 360000
      [] unit = "pt" -> 12700
      [] unit = "in" -> 914400

LengthOf(number_str, unit) ==
    LET x == FloatOf(number_str)
    IN CASE x.kind = "number" ->
              [ok |-> TRUE, error |-> "none",
               emu |-> (x.mant * EmuPerUnit(unit)) \div Pow10(x.frac)]
         [] x.kind = "inf" -> [ok |-> FALSE, error |-> "OverflowError", emu |-> 0]
         [] OTHER -> [ok |-> FALSE, error |-> "DocumentFormattingError", emu |-> 0]

\* the string branch of parse_measurement: the length in EMU, or the error
\* that leaves the function
parse_measurement(value) ==
    LET v == Lower(Strip(value))
    IN IF EndsWith(v, <<"m", "m">>) THEN LengthOf(DropLast(v, 2), "mm")
       ELSE IF EndsWith(v, <<"c", "m">>) THEN LengthOf(DropLast(v, 2), "cm")
       ELSE IF EndsWith(v, <<"p", "t">>) THEN LengthOf(DropLast(v, 2), "pt")
       ELSE IF EndsWith(v, <<"i", "n">>) THEN LengthOf(DropLast(v, 2), "in")
       ELSE IF EndsWith(v, <<"\"">>) THEN LengthOf(DropLast(v, 1), "in")
       ELSE LengthOf(v, "pt")

\* parse_measurement on a value of any type: a number goes to Pt(float(value)),
\* anything else through str() into the string branch.  A value is given by
\* its type, its text when a string, and mant / 10^frac when a number.
parse_measurement_value(value) ==
    IF value.type \in {"int", "float"}
    THEN [ok |-> TRUE, error |-> "none",
          emu |-> (value.mant * EmuPerUnit("pt")) \div Pow10(value.frac)]
    ELSE parse_measurement(value.text)

ParseMeasurement ==
    /\ pc = "measure_idle"
    /\ result' = <<parse_measurement_value(input)>>
    /\ raised' = parse_measurement_value(input).error
    /\ pc' = "measure_done"
    /\ UNCHANGED <<docs, self_doc, input, config, add_title_page, fs, calls,
                   section_numbers, cursor>>

\* what is left of a measurement once the suffix is off: numbers, blanks,
\* words, and the two words float() takes for numbers
MeasureNumbers ==
    {<<"1">>, <<"1", "2">>, <<"2", ".", "5">>, <<"0">>, <<".", "5">>, <<"1", ".">>,
     <<" ", "1", "5", " ">>, <<>>, <<"a", "b", "c">>, <<"1", ".", "2", ".", "3">>,
     <<"1", "x">>, <<"i", "n", "f">>, <<"n", "a", "n">>, <<"I", "n", "f">>}

MeasureSuffixes ==
    {<<>>, <<"m", "m">>, <<"c", "m">>, <<"p", "t">>, <<"i", "n">>, <<"\"">>,
     <<"M", "M">>, <<"P", "t", " ">>, <<"p", "x">>}

MeasureValues ==
    {[type |-> "str", text |-> n \o s, mant |-> 0, frac |-> 0] :
        n \in MeasureNumbers, s \in MeasureSuffixes}
    \cup {[type |-> "int", text |-> <<>>, mant |-> m, frac |-> 0] : m \in {0, 12, 72}}
    \cup {[type |-> "float", text |-> <<>>, mant |-> m, frac |-> 1] : m \in {5, 125}}

InitMeasure ==
    /\ input \in MeasureValues
    /\ docs = <<>>
    /\ self_doc = 0
    /\ add_title_page = FALSE
    /\ config = DefaultConfig
    /\ fs = EmptyFs
    /\ pc = "measure_idle"
    /\ calls = <<>>
    /\ raised = "none"
    /\ section_numbers = <<0, 0, 0>>
    /\ cursor = 0
    /\ result = <<>>

NextMeasure == ParseMeasurement

SpecMeasure == InitMeasure /\ [][NextMeasure]_vars

-----------------------------------------------------------------------------
(* MarginsProcessor (processors/margins_processor.py).                     *)

\* Length.twips: the length in twentieths of a point (635 EMU), rounded
TwipsOf(emu) == (2 * emu + 635) \div 1270

\* what a section margin reads back after `section.<side>_margin = length`:
\* the page-margin attributes hold whole twips
StoredMargin(emu) == TwipsOf(emu) * 635

\* the four assignments of the loop body, in source order
MarginSides ==
    <<[cfg |-> "left", attr |-> "left_margin"],
      [cfg |-> "right", attr |-> "right_margin"],
      [cfg |-> "top", attr |-> "top_margin"],
      [cfg |-> "bottom", attr |-> "bottom_margin"]>>

\* parse_measurement(margins_config.<side>) for the four sides
ParsedMargins(margins_config) ==
    [k \in 1..Len(MarginSides) |-> parse_measurement(margins_config[MarginSides[k].cfg])]

AllParsed(parsed) == \A k \in 1..Len(parsed) : parsed[k].ok

\* the loop body: section.<side>_margin = <parsed side>, side by side; the
\* first side whose parse raises leaves the section as it is by then
RECURSIVE SetSides(_, _, _)
SetSides(section, k, parsed) ==
    IF k > Len(parsed) \/ ~parsed[k].ok THEN section
    ELSE SetSides([section EXCEPT ![MarginSides[k].attr] = StoredMargin(parsed[k].emu)],
                  k + 1, parsed)

\* `for i, section in enumerate(self.doc.sections)`, left at the first raise
RECURSIVE SetSections(_, _, _)
SetSections(sections, i, parsed) ==
    IF i > Len(sections) THEN sections
    ELSE IF ~AllParsed(parsed) THEN [sections EXCEPT ![i] = SetSides(@, 1, parsed)]
    ELSE SetSections([sections EXCEPT ![i] = SetSides(@, 1, parsed)], i + 1, parsed)

MarginsProcessor_apply_first_section(doc, cfg) ==
    [doc |-> [doc EXCEPT !.sections[1] = SetSides(@, 1, ParsedMargins(cfg.margins))],
     raised |-> IF AllParsed(ParsedMargins(cfg.margins)) THEN "none" ELSE "ProcessorError"]

\* MarginsProcessor.apply: the document it leaves and the exception it raises
\* (any exception of the loop is re-raised as ProcessorError)
MarginsProcessor_apply(doc, cfg) ==
    [doc |-> [doc EXCEPT !.sections = SetSections(@, 1, ParsedMargins(cfg.margins))],
     raised |-> IF doc.sections = <<>> \/ AllParsed(ParsedMargins(cfg.margins))
                THEN "none" ELSE "ProcessorError"]

MarginsApply ==
    /\ pc = "margins_idle"
    /\ LET r == MarginsProcessor_apply(Document, config)
       IN /\ docs' = [docs EXCEPT ![self_doc] = r.doc]
          /\ raised' = r.raised
    /\ pc' = "margins_done"
    /\ calls' = Append(calls, [stage |-> "MarginsProcessor", doc |-> self_doc])
    /\ UNCHANGED <<self_doc, input, config, add_title_page, result, fs, section_numbers, cursor>>

S_25cm == <<"2", ".", "5", "c", "m">>
S_72pt == <<"7", "2", "p", "t">>
S_1in == <<"1", "i", "n">>
S_1inchmark == <<"1", "\"">>
S_12 == <<"1", "2">>
S_15MM_padded == <<" ", "1", "5", "M", "M", " ">>
S_abc == <<"a", "b", "c">>
S_inf == <<"i", "n", "f">>
MarginStrings ==
    {S_20mm, S_25cm, S_72pt, S_1inchmark, S_12, S_15MM_padded, S_abc, S_inf}

\* sections as an opened document may hold them
OldSections ==
    {DefaultSection, [DefaultSection EXCEPT !.left_margin = 720090, !.top_margin = 0]}

InitMargins ==
    /\ \E secs \in SeqsUpTo(OldSections, MaxSections) :
          /\ secs # <<>>
          /\ LET d == [BodyDocument(<<NewParagraph(T_a, "Normal")>>)
                          EXCEPT !.sections = secs]
             IN docs = <<d>> /\ input = d
    /\ self_doc = 1
    /\ add_title_page = FALSE
    /\ \E l \in MarginStrings, r \in MarginStrings, t \in MarginStrings,
          b \in MarginStrings :
          config = [DefaultConfig EXCEPT
                       !.margins = [left |-> l, right |-> r, top |-> t, bottom |-> b]]
    /\ fs = EmptyFs
    /\ pc = "margins_idle"
    /\ calls = <<>>
    /\ raised = "none"
    /\ section_numbers = <<0, 0, 0>>
    /\ cursor = 0
    /\ result = <<>>

NextMargins == MarginsApply

SpecMargins == InitMargins /\ [][NextMargins]_vars

-----------------------------------------------------------------------------
(* Claims about margins.                                                   *)

MarginAttrs == {"left_margin", "right_margin", "top_margin", "bottom_margin"}

\* the parsed configured value of a margin attribute, in EMU
Configured(attr) ==
    LET k == CHOOSE j \in 1..Len(MarginSides) : MarginSides[j].attr = attr
    IN parse_measurement(config.margins[MarginSides[k].cfg])

WellFormedMargins == \A attr \in MarginAttrs : Configured(attr).ok

MarginsReturned == pc = "margins_done" /\ raised = "none"

\* C8 (as amended): after MarginsProcessor.apply returns for a well-formed
\* config, every section (not only the first) reads back, for each of its
\* four margins, the whole number of twips (635 EMU) nearest to the parsed
\* configured value.
C8_MarginsOnEverySection ==
    (pc = "margins_done" /\ WellFormedMargins)
    => /\ raised = "none"
       /\ \A i \in 1..Len(Document.sections) : \A attr \in MarginAttrs :
             LET got == Document.sections[i][attr]
                 want == Configured(attr).emu
             IN /\ got % 635 = 0
                /\ 2 * (got - want) < 635
                /\ 2 * (want - got) < 635

C8_Witness ==
    /\ MarginsReturned
    /\ Len(Document.sections) = 2
    /\ config.margins.left = S_20mm
    /\ input.sections[2].left_margin = 1143000
    /\ Document.sections[2].left_margin = 720090

\* C8 as stated: every margin equals the parsed configured value
C8_Original ==
    (pc = "margins_done" /\ WellFormedMargins)
    => /\ raised = "none"
       /\ \A i \in 1..Len(Document.sections) : \A attr \in MarginAttrs :
             Document.sections[i][attr] = Configured(attr).emu

\* C9: a failing MarginsProcessor.apply raises ProcessorError and leaves
\* no section with only some of its four margins changed.
C9_AtomicMargins ==
    (pc = "margins_done" /\ ~WellFormedMargins)
    => /\ raised = "ProcessorError"
       /\ \A i \in 1..Len(Document.sections) :
             \/ \A attr \in MarginAttrs :
                   Document.sections[i][attr] = input.sections[i][attr]
             \/ \A attr \in MarginAttrs :
                   /\ Configured(attr).ok
                   /\ Document.sections[i][attr] = StoredMargin(Configured(attr).emu)

-----------------------------------------------------------------------------
(* HeaderFooterProcessor (processors/header_footer_processor.py).          *)
(* A header or footer is its sequence of paragraphs; a paragraph there is  *)
(* an alignment and runs of text, bold, italic, font and field code.       *)

HFRun(text, bold, italic, font, field) ==
    [text |-> text, bold |-> bold, italic |-> italic, font |-> font, field |-> field]

EmptyHFParagraph == [alignment |-> "none", runs |-> <<>>]

\* paragraph.clear() on every paragraph; an element without one gets one
_clear_element(element) ==
    IF element = <<>> THEN <<EmptyHFParagraph>>
    ELSE [i \in 1..Len(element) |-> [element[i] EXCEPT !.runs = <<>>]]

\* the first paragraph, cleared (added when there is none), aligned
FirstParagraphAligned(element, align) ==
    IF element = <<>> THEN <<[alignment |-> align, runs |-> <<>>]>>
    ELSE [element EXCEPT ![1] = [alignment |-> align, runs |-> <<>>]]

\* fonts['main'].get('family', None); errors on this path are swallowed
MainFamilyOrNone(cfg) == IF "main" \in cfg.fonts THEN "main" ELSE "none"

_add_text_to_element(element, text, align, cfg) ==
    [FirstParagraphAligned(element, align) EXCEPT
        ![1].runs = <<HFRun(text, FALSE, FALSE, MainFamilyOrNone(cfg), "none")>>]

PartFont(part) == IF part.font_family = "None" THEN "main" ELSE part.font_family

\* needs fonts['main']: the caller checks CanAddParts first
_add_text_parts_to_element(element, text_parts, align) ==
    [FirstParagraphAligned(element, align) EXCEPT
        ![1].runs = [i \in 1..Len(text_parts) |->
                        HFRun(text_parts[i].text, text_parts[i].bold,
                              text_parts[i].italic, PartFont(text_parts[i]), "none")]]

_add_page_number(footer, align, cfg) ==
    [FirstParagraphAligned(footer, align) EXCEPT
        ![1].runs = <<HFRun(<<>>, FALSE, FALSE, MainFamilyOrNone(cfg), "PAGE")>>]

\* fonts['main'] is read outside any try block in _add_text_parts_to_element
CanAddParts(cfg) == "main" \in cfg.fonts

\* the odd-page (primary) header of a section
OddHeader_uncrossed(section, h, cfg) ==
    IF h.right_parts # <<>>
    THEN IF CanAddParts(cfg)
         THEN _add_text_parts_to_element(section.header, h.right_parts, "right")
         ELSE FirstParagraphAligned(section.header, "right")
    ELSE _add_text_to_element(section.header, h.right, "right", cfg)

OddHeader(section, h, cfg) ==
    IF h.right_parts # <<>>
    THEN IF CanAddParts(cfg)
         THEN _add_text_parts_to_element(section.header, h.right_parts, "right")
         ELSE FirstParagraphAligned(section.header, "right")
    ELSE _add_text_to_element(section.header, h.left, "right", cfg)

\* the even-page header of a section
EvenHeader(section, h, cfg) ==
    IF h.left_parts # <<>>
    THEN IF CanAddParts(cfg)
         THEN _add_text_parts_to_element(section.even_page_header, h.left_parts, "left")
         ELSE FirstParagraphAligned(section.even_page_header, "left")
    ELSE _add_text_to_element(section.even_page_header, h.right, "left", cfg)

\* how far the loop body gets: 1 raises in the odd header, 2 in the even
\* header, 3 completes
BodyReach(h, cfg) ==
    IF h.right_parts # <<>> /\ ~CanAddParts(cfg) THEN 1
    ELSE IF h.left_parts # <<>> /\ ~CanAddParts(cfg) THEN 2
    ELSE 3

\* one iteration of `for i, section in enumerate(self.doc.sections)`
HeaderFooterSection(section, h, cfg) ==
    [section EXCEPT
        !.different_first_page_header_footer = TRUE,
        !.first_page_header = _clear_element(@),
        !.first_page_footer = _clear_element(@),
        !.header = OddHeader(section, h, cfg),
        !.even_page_header =
            IF BodyReach(h, cfg) >= 2 THEN EvenHeader(section, h, cfg) ELSE @,
        !.footer =
            IF BodyReach(h, cfg) = 3 /\ h.page_numbers
            THEN _add_page_number(@, "right", cfg) ELSE @,
        !.even_page_footer =
            IF BodyReach(h, cfg) = 3 /\ h.page_numbers
            THEN _add_page_number(@, "left", cfg) ELSE @]

\* _apply_headers_footers: every section when nothing raises, the first
\* section as far as it got otherwise
_apply_headers_footers(doc, cfg) ==
    [doc EXCEPT
        !.odd_and_even_pages_header_footer = TRUE,
        !.sections =
            [i \in 1..Len(@) |->
                IF i = 1 \/ BodyReach(cfg.headers, cfg) = 3
                THEN HeaderFooterSection(@[i], cfg.headers, cfg)
                ELSE @[i]]]

HeaderFooterProcessor_apply_always(doc, cfg) ==
    [doc |-> _apply_headers_footers(doc, cfg),
     raised |-> IF doc.sections = <<>> \/ BodyReach(cfg.headers, cfg) = 3
                THEN "none" ELSE "ProcessorError"]

\* HeaderFooterProcessor.apply: the document it leaves, the exception raised
HeaderFooterProcessor_apply(doc, cfg) ==
    IF ~cfg.headers.enabled THEN [doc |-> doc, raised |-> "none"]
    ELSE [doc |-> _apply_headers_footers(doc, cfg),
          raised |-> IF doc.sections = <<>> \/ BodyReach(cfg.headers, cfg) = 3
                     THEN "none" ELSE "ProcessorError"]

HeaderFooterApply ==
    /\ pc = "headers_idle"
    /\ LET r == HeaderFooterProcessor_apply(Document, config)
       IN /\ docs' = [docs EXCEPT ![self_doc] = r.doc]
          /\ raised' = r.raised
    /\ pc' = "headers_done"
    /\ calls' = Append(calls, [stage |-> "HeaderFooterProcessor", doc |-> self_doc])
    /\ UNCHANGED <<self_doc, input, config, add_title_page, result, fs, section_numbers, cursor>>

\* headers and footers an opened document may hold: none, the empty
\* paragraph of a new part, old text, old text over two paragraphs
OldHFParagraph == [alignment |-> "center", runs |-> <<HFRun(<<"X">>, TRUE, FALSE, "none", "none")>>]
OldHeaderFooters ==
    {<<>>, <<EmptyHFParagraph>>, <<OldHFParagraph>>, <<OldHFParagraph, OldHFParagraph>>}

HeaderSections ==
    {[DefaultSection EXCEPT !.header = hf, !.even_page_header = hf,
                            !.first_page_header = hf, !.footer = hf,
                            !.even_page_footer = hf, !.first_page_footer = hf] :
        hf \in OldHeaderFooters}

Part_bold == [text |-> <<"G">>, bold |-> TRUE, italic |-> FALSE, font_family |-> "None"]
Part_plain == [text |-> <<"t">>, bold |-> FALSE, italic |-> TRUE, font_family |-> "Arial"]

HeaderConfigs ==
    {[left |-> l, right |-> r, page_numbers |-> pn, enabled |-> en,
      right_parts |-> rp, left_parts |-> lp] :
        l \in {<<>>, <<"L">>}, r \in {<<>>, <<"R">>}, pn \in BOOLEAN, en \in BOOLEAN,
        rp \in {<<>>, <<Part_bold, Part_plain>>}, lp \in {<<>>, <<Part_plain>>}}

InitHeader ==
    /\ \E secs \in SeqsUpTo(HeaderSections, MaxSections) :
          /\ secs # <<>>
          /\ LET d == [BodyDocument(<<NewParagraph(T_a, "Normal")>>)
                          EXCEPT !.sections = secs]
             IN docs = <<d>> /\ input = d
    /\ self_doc = 1
    /\ add_title_page = FALSE
    /\ \E h \in HeaderConfigs, f \in {{"main"}, {}} :
          config = [DefaultConfig EXCEPT !.headers = h, !.fonts = f]
    /\ fs = EmptyFs
    /\ pc = "headers_idle"
    /\ calls = <<>>
    /\ raised = "none"
    /\ section_numbers = <<0, 0, 0>>
    /\ cursor = 0
    /\ result = <<>>

NextHeader == HeaderFooterApply

SpecHeader == InitHeader /\ [][NextHeader]_vars

-----------------------------------------------------------------------------
(* Claims about headers.                                                   *)

\* the text a header shows: that of its first paragraph
HeaderText(element) == IF element = <<>> THEN <<>> ELSE Text(element[1])

PlainHeaders ==
    /\ config.headers.enabled
    /\ config.headers.right_parts = <<>>
    /\ config.headers.left_parts = <<>>

-----------------------------------------------------------------------------
(* TOCProcessor (processors/toc_processor.py).                             *)

HEADING_STYLES == ("Heading 1" :> 0) @@ ("Heading 2" :> 1) @@ ("Heading 3" :> 2)

lines_per_page == 55

\* the positions (1-based) of the paragraphs styled Heading 1..3, in order
RECURSIVE _extract_headings(_, _)
_extract_headings(paragraphs, i) ==
    IF i > Len(paragraphs) THEN <<>>
    ELSE IF paragraphs[i].style \in DOMAIN HEADING_STYLES
    THEN <<i>> \o _extract_headings(paragraphs, i + 1)
    ELSE _extract_headings(paragraphs, i + 1)

\* HEADING_STYLES.get(style_name, 0)
_get_heading_level(style_name) ==
    IF style_name \in DOMAIN HEADING_STYLES THEN HEADING_STYLES[style_name] ELSE 0

\* document.paragraphs.index(paragraph) for the heading at the given position:
\* document.paragraphs builds new Paragraph proxies at every access and
\* Paragraph defines no __eq__, so list.index compares by identity and finds
\* none of the new proxies equal to the heading collected by _extract_headings.
\* The outcome is the 0-based index, or -1 for ValueError.
paragraphs_index(paragraphs, position) ==
    IF \E i \in {} : paragraphs[i] = paragraphs[position] THEN position - 1 ELSE -1

\* the page of the paragraph: computed from the index, 1 when index() raised
_get_paragraph_page_number(para_index) ==
    LET page_num == (para_index \div lines_per_page) + 1
    IN IF para_index = -1 THEN 1
       ELSE IF page_num > 1 THEN page_num ELSE 1

RECURSIVE _build_toc_entries_exceeding(_, _, _)
_build_toc_entries_exceeding(paragraphs, headings, max_levels) ==
    IF headings = <<>> THEN <<>>
    ELSE IF _get_heading_level(paragraphs[Head(headings)].style) > max_levels
    THEN _build_toc_entries_exceeding(paragraphs, Tail(headings), max_levels)
    ELSE <<[level |-> _get_heading_level(paragraphs[Head(headings)].style),
            text |-> Text(paragraphs[Head(headings)]),
            page_num |-> _get_paragraph_page_number(
                            paragraphs_index(paragraphs, Head(headings)))]>>
         \o _build_toc_entries_exceeding(paragraphs, Tail(headings), max_levels)

\* one entry per heading whose level is below toc.levels
RECURSIVE _build_toc_entries(_, _, _)
_build_toc_entries(paragraphs, headings, max_levels) ==
    IF headings = <<>> THEN <<>>
    ELSE IF _get_heading_level(paragraphs[Head(headings)].style) >= max_levels
    THEN _build_toc_entries(paragraphs, Tail(headings), max_levels)
    ELSE <<[level |-> _get_heading_level(paragraphs[Head(headings)].style),
            text |-> Text(paragraphs[Head(headings)]),
            page_num |-> _get_paragraph_page_number(
                            paragraphs_index(paragraphs, Head(headings)))]>>
         \o _build_toc_entries(paragraphs, Tail(headings), max_levels)

\* "  " * level
Indent(level) == [k \in 1..(2 * level) |-> " "]

\* f"{indent}{text}...{page_num}" or f"{indent}{text}"
_build_toc_lines(entries, show_page_numbers) ==
    [k \in 1..Len(entries) |->
        IF show_page_numbers
        THEN Indent(entries[k].level) \o entries[k].text \o <<".", ".", ".">>
                 \o IntToStr(entries[k].page_num)
        ELSE Indent(entries[k].level) \o entries[k].text]

\* document.paragraphs[index].insert_paragraph_before(..) when the index is in
\* range, document.add_paragraph(..) otherwise (index is 0-based)
InsertOrAppend(paragraphs, index, p) ==
    IF paragraphs # <<>> /\ index < Len(paragraphs)
    THEN SubSeq(paragraphs, 1, index) \o <<p>> \o SubSeq(paragraphs, index + 1, Len(paragraphs))
    ELSE Append(paragraphs, p)

\* the loop `for i, line in enumerate(toc_lines)` from its i-th round on (i is 0-based)
RECURSIVE InsertLines(_, _, _)
InsertLines(paragraphs, toc_lines, i) ==
    IF i >= Len(toc_lines) THEN paragraphs
    ELSE InsertLines(InsertOrAppend(paragraphs, i + 2, NewParagraph(toc_lines[i + 1], "Normal")),
                     toc_lines, i + 1)

_insert_toc_to_document_plain_title(paragraphs, toc_lines, toc_title) ==
    InsertOrAppend(
        InsertLines(
            InsertOrAppend(
                InsertOrAppend(paragraphs, 0, NewParagraph(toc_title, "Normal")),
                0, NewParagraph(<<>>, "Normal")),
            toc_lines, 0),
        Len(toc_lines) + 2, NewParagraph(<<>>, "Normal"))

\* the title before paragraph 0, the first spacer before what is paragraph 0
\* then, the lines from index 2 on, the second spacer behind them
_insert_toc_to_document(paragraphs, toc_lines, toc_title) ==
    InsertOrAppend(
        InsertLines(
            InsertOrAppend(
                InsertOrAppend(paragraphs, 0, NewParagraph(toc_title, "Heading 1")),
                0, NewParagraph(<<>>, "Normal")),
            toc_lines, 0),
        Len(toc_lines) + 2, NewParagraph(<<>>, "Normal"))

\* create_toc: the paragraphs of the document afterwards
create_toc(paragraphs, cfg) ==
    IF ~cfg.toc.enabled THEN paragraphs
    ELSE IF _extract_headings(paragraphs, 1) = <<>> THEN paragraphs
    ELSE _insert_toc_to_document(
             paragraphs,
             _build_toc_lines(
                 _build_toc_entries(paragraphs, _extract_headings(paragraphs, 1), cfg.toc.levels),
                 cfg.toc.page_numbers),
             cfg.toc.title)

\* styles[name]: whether the document has a style of that name
HasStyle(styles, style_name) == \E k \in 1..Len(styles) : styles[k] = style_name

\* the exception that leaves create_toc: `title_para.style = 'Heading 1'` raises
\* KeyError in a document that has no style of that name, and the handler
\* logs it and re-raises it as it is
create_toc_raised(doc, cfg) ==
    IF /\ cfg.toc.enabled
       /\ _extract_headings(doc.paragraphs, 1) # <<>>
       /\ ~HasStyle(doc.styles, "Heading 1")
    THEN "KeyError" ELSE "none"

\* what the failed run leaves: the title paragraph, inserted and not yet styled
create_toc_interrupted(paragraphs, cfg) ==
    InsertOrAppend(paragraphs, 0, NewParagraph(cfg.toc.title, "Normal"))

\* _extract_headings called on its own: the paragraphs it returns
TocExtract ==
    /\ pc = "toc_idle"
    /\ result' = [k \in 1..Len(_extract_headings(Document.paragraphs, 1)) |->
                     Document.paragraphs[_extract_headings(Document.paragraphs, 1)[k]]]
    /\ pc' = "toc_extracted"
    /\ UNCHANGED <<docs, self_doc, input, config, add_title_page, fs, calls, raised,
                   section_numbers, cursor>>

TocCreate ==
    /\ pc \in {"toc_idle", "toc_extracted"}
    /\ raised' = create_toc_raised(Document, config)
    /\ docs' = [docs EXCEPT ![self_doc].paragraphs =
                    IF create_toc_raised(Document, config) = "none"
                    THEN create_toc(@, config)
                    ELSE create_toc_interrupted(@, config)]
    /\ pc' = "toc_done"
    /\ calls' = Append(calls, [stage |-> "TOCProcessor", doc |-> self_doc])
    /\ UNCHANGED <<self_doc, input, config, add_title_page, result, fs, section_numbers, cursor>>

T_b == <<"b">>

TocParagraphs ==
    {NewParagraph(T_a, "Heading 1"), NewParagraph(T_b, "Heading 2"),
     NewParagraph(T_1_a, "Heading 3"), NewParagraph(T_a, "Normal"),
     NewParagraph(<<>>, "Normal"), NewParagraph(T_b, "Heading 4")}

\* the headings [H1, H2, H3, H1] of the specification's example
ExampleHeadingsDoc ==
    <<NewParagraph(T_a, "Heading 1"), NewParagraph(T_b, "Heading 2"),
      NewParagraph(T_1_a, "Heading 3"), NewParagraph(T_b, "Heading 1")>>

\* a heading on what the page estimate takes for the second page
LongHeadingsDoc ==
    [i \in 1..(lines_per_page + 2) |->
        IF i = lines_per_page + 1 THEN NewParagraph(T_a, "Heading 1")
        ELSE IF i = 1 THEN NewParagraph(T_b, "Heading 2")
        ELSE NewParagraph(T_a, "Normal")]

InitTOC ==
    /\ \E ps \in SeqsUpTo(TocParagraphs, MaxParas) \cup {ExampleHeadingsDoc, LongHeadingsDoc} :
          /\ docs = <<BodyDocument(ps)>>
          /\ input = BodyDocument(ps)
    /\ self_doc = 1
    /\ add_title_page = FALSE
    /\ \E en \in BOOLEAN, lv \in 1..3, pn \in BOOLEAN :
          config = [DefaultConfig EXCEPT !.toc.enabled = en, !.toc.levels = lv,
                                         !.toc.page_numbers = pn]
    /\ fs = EmptyFs
    /\ pc = "toc_idle"
    /\ calls = <<>>
    /\ raised = "none"
    /\ section_numbers = <<0, 0, 0>>
    /\ cursor = 0
    /\ result = <<>>

NextTOC == TocExtract \/ TocCreate

SpecTOC == InitTOC /\ [][NextTOC]_vars

\* create_toc called again on the document it left; the caller keeps a copy
\* of the document as it was before the call
TocAgain ==
    /\ pc = "toc_done"
    /\ Len(calls) < MaxApplies
    /\ result' = <<Document>>
    /\ pc' = "toc_idle"
    /\ UNCHANGED <<docs, self_doc, input, config, add_title_page, fs, calls, raised,
                   section_numbers, cursor>>

NextTocTwice == TocCreate \/ TocAgain

SpecTocTwice == InitTOC /\ [][NextTocTwice]_vars

-----------------------------------------------------------------------------
(* Claims about the table of contents.                                     *)

TocCreated ==
    /\ pc = "toc_done"
    /\ config.toc.enabled
    /\ \E i \in 1..Len(input.paragraphs) : IsHeading(input.paragraphs[i])

TocLinesOf(paragraphs, cfg) ==
    _build_toc_lines(
        _build_toc_entries(paragraphs, _extract_headings(paragraphs, 1), cfg.toc.levels),
        cfg.toc.page_numbers)

\* C10: after create_toc the document begins with the title paragraph (Heading 1),
\* then one blank spacer, then every TOC line (Normal) in entry order, then one
\* trailing blank spacer, and then the original paragraphs.
C10_TocLayout ==
    TocCreated =>
        Document.paragraphs =
            <<NewParagraph(config.toc.title, "Heading 1"), NewParagraph(<<>>, "Normal")>>
                \o [k \in 1..Len(TocLinesOf(input.paragraphs, config)) |->
                       NewParagraph(TocLinesOf(input.paragraphs, config)[k], "Normal")]
                \o <<NewParagraph(<<>>, "Normal")>>
                \o input.paragraphs

-----------------------------------------------------------------------------
(* StyleProcessor (processors/style_processor.py).  A style is its name;   *)
(* the fonts config is the set of its keys.                                *)

_get_or_create_style_always_adding(styles, style_name) == Append(styles, style_name)

\* lookup before create
_get_or_create_style(styles, style_name) ==
    IF HasStyle(styles, style_name) THEN styles ELSE Append(styles, style_name)

\* Custom_Main first, then fonts_cfg['main'] is read (KeyError without it)
_setup_base_styles(styles, fonts_cfg) ==
    LET main_style == _get_or_create_style(styles, "Custom_Main")
        appendix_style == IF "appendices" \in fonts_cfg
                          THEN _get_or_create_style(main_style, "Custom_Appendix")
                          ELSE main_style
    IN IF "main" \notin fonts_cfg THEN main_style
       ELSE IF "notes" \in fonts_cfg
       THEN _get_or_create_style(appendix_style, "Custom_Notes")
       ELSE appendix_style

\* f'Heading {level + 1}'
heading_style_name(level) ==
    <<"Heading 1", "Heading 2", "Heading 3", "Heading 4", "Heading 5", "Heading 6",
      "Heading 7", "Heading 8", "Heading 9">>[level + 1]

\* `for level in range(header_num)` from the given level on
RECURSIVE _setup_heading_styles(_, _, _)
_setup_heading_styles(styles, header_num, level) ==
    IF level >= header_num THEN styles
    ELSE _setup_heading_styles(_get_or_create_style(styles, heading_style_name(level)),
                               header_num, level + 1)

\* `for exception in spacing_cfg.exceptions` from the k-th exception on; an
\* exception is given by the value of its first_edition key
RECURSIVE _apply_line_spacing(_, _, _)
_apply_line_spacing(styles, exceptions, k) ==
    IF k > Len(exceptions) THEN styles
    ELSE _apply_line_spacing(
             IF exceptions[k] = "single"
             THEN _get_or_create_style(styles, "Custom_FirstEdition") ELSE styles,
             exceptions, k + 1)

_setup_special_styles(styles) ==
    _get_or_create_style(_get_or_create_style(styles, "Custom_Title"), "Custom_Header")

\* run.font.name = main_font_family on every run of every paragraph
_apply_to_existing_document(paragraphs) ==
    [k \in 1..Len(paragraphs) |->
        [paragraphs[k] EXCEPT !.runs = [j \in 1..Len(@) |-> [@[j] EXCEPT !.font = "main"]]]]

\* StyleProcessor.apply: the document it leaves, the exception raised
StyleProcessor_apply(doc, cfg) ==
    IF "main" \notin cfg.fonts
    THEN [doc |-> [doc EXCEPT !.styles = _setup_base_styles(@, cfg.fonts)],
          raised |-> "ProcessorError"]
    ELSE [doc |-> [doc EXCEPT
                      !.styles = _apply_line_spacing(
                                     _setup_special_styles(
                                         _setup_heading_styles(
                                             _setup_base_styles(@, cfg.fonts), cfg.headerNum, 0)),
                                     cfg.spacing.exceptions, 1),
                      !.paragraphs = _apply_to_existing_document(@)],
          raised |-> "none"]

-----------------------------------------------------------------------------
(* StyleProcessor.apply called again and again on one document.            *)

StyleApply ==
    /\ pc \in {"style_idle", "style_applied"}
    /\ Len(calls) < MaxApplies
    /\ LET r == StyleProcessor_apply(Document, config)
       IN /\ docs' = [docs EXCEPT ![self_doc] = r.doc]
          /\ raised' = r.raised
    /\ pc' = "style_applied"
    /\ calls' = Append(calls, [stage |-> "StyleProcessor", doc |-> self_doc])
    /\ UNCHANGED <<self_doc, input, config, add_title_page, result, fs, section_numbers, cursor>>

\* style sheets to start from: the default template's, one without heading
\* styles, one that already has some of the custom styles
StyleSheets ==
    {<<"Normal", "Heading 1", "Heading 2", "Heading 3">>,
     <<"Normal">>,
     <<"Normal", "Custom_Header", "Heading 2", "Custom_Main">>}

FontKeys == SUBSET {"main", "appendices", "notes"}
HeaderNums == {0, 1, 3, 4}
SpacingExceptions == {<<>>, <<"single">>, <<"double", "single", "single">>}

InitStyle ==
    /\ \E ps \in SeqsUpTo({NewParagraph(T_a, "Normal")}, MaxParas), st \in StyleSheets :
          LET d == [BodyDocument(ps) EXCEPT !.styles = st]
          IN docs = <<d>> /\ input = d
    /\ self_doc = 1
    /\ add_title_page = FALSE
    /\ \E fonts \in FontKeys, n \in HeaderNums, ex \in SpacingExceptions :
          config = [DefaultConfig EXCEPT !.fonts = fonts, !.headerNum = n,
                                         !.spacing = [exceptions |-> ex]]
    /\ fs = EmptyFs
    /\ pc = "style_idle"
    /\ calls = <<>>
    /\ raised = "none"
    /\ section_numbers = <<0, 0, 0>>
    /\ cursor = 0
    /\ result = <<>>

NextStyle == StyleApply

SpecStyle == InitStyle /\ [][NextStyle]_vars

-----------------------------------------------------------------------------
(* TitleProcessor (processors/title_processor.py) over the working         *)
(* directory: a file is <<>> when absent, <<document>> when present.       *)

\* the title page the template renders to
RenderedTitle == BodyDocument(<<NewParagraph(<<"T">>, "Normal")>>)

\* Composer(Document()) with the title and the source appended: the body
\* elements of both in order, the section of the empty master document
Compose(title_doc, source_doc) ==
    BodyDocument(title_doc.paragraphs \o source_doc.paragraphs)

_add_title_page_keeping_temp(files, source_doc_path, output_path) ==
    IF files["title_template.docx"] = <<>>
    THEN [fs |-> files, raised |-> TRUE]
    ELSE IF files[source_doc_path] = <<>>
    THEN [fs |-> [files EXCEPT !["temp_title.docx"] = <<RenderedTitle>>], raised |-> TRUE]
    ELSE [fs |-> [files EXCEPT
                     ![output_path] = <<Compose(RenderedTitle, files[source_doc_path][1])>>,
                     !["temp_title.docx"] = <<RenderedTitle>>],
          raised |-> FALSE]

\* _add_title_page: the directory afterwards, and whether it raised
_add_title_page(files, source_doc_path, output_path) ==
    IF files["title_template.docx"] = <<>>
    THEN [fs |-> files, raised |-> TRUE]
    ELSE IF files[source_doc_path] = <<>>
    THEN [fs |-> [files EXCEPT !["temp_title.docx"] = <<RenderedTitle>>], raised |-> TRUE]
    ELSE [fs |-> [files EXCEPT
                     ![output_path] = <<Compose(RenderedTitle, files[source_doc_path][1])>>,
                     !["temp_title.docx"] = <<>>],
          raised |-> FALSE]

\* TitleProcessor.apply: nothing is written when the title page is disabled
TitleProcessor_apply(files, source_doc_path, output_path, cfg) ==
    IF ~cfg.title_page.enabled THEN [fs |-> files, raised |-> "none"]
    ELSE [fs |-> _add_title_page(files, source_doc_path, output_path).fs,
          raised |-> IF _add_title_page(files, source_doc_path, output_path).raised
                     THEN "ProcessorError" ELSE "none"]

-----------------------------------------------------------------------------
(* DocumentProcessingPipeline (pipeline.py).  pc names the stage that runs *)
(* next; every stage is recorded in `calls` with the object it worked on   *)
(* and the exception it raised.                                            *)

StageAfter_without_title(stage, with_title) ==
    CASE stage = "styles" -> "margins_1"
      [] stage = "margins_1" -> "margins_3"
      [] stage = "save" -> "title"
      [] stage = "title" -> "load"
      [] stage = "load" -> "margins_3"
      [] stage = "margins_3" -> "headers"
      [] stage = "headers" -> "returned"

\* the order of the calls in execute and in its three helper methods
StageAfter(stage, with_title) ==
    CASE stage = "styles" -> "margins_1"
      [] stage = "margins_1" -> IF with_title THEN "save" ELSE "margins_3"
      [] stage = "save" -> "title"
      [] stage = "title" -> "load"
      [] stage = "load" -> "margins_3"
      [] stage = "margins_3" -> "headers"
      [] stage = "headers" -> "returned"

execute_swallowing(stage_raised, stage, with_title) ==
    [pc |-> StageAfter(stage, with_title), raised |-> "none"]

\* the try/except of execute around a stage: go on, or leave with
\* DocumentFormattingError
execute(stage_raised, stage, with_title) ==
    IF stage_raised = "none"
    THEN [pc |-> StageAfter(stage, with_title), raised |-> "none"]
    ELSE [pc |-> "failed", raised |-> "DocumentFormattingError"]

_apply_title_page_keeping_doc(objects) == 1

\* self.doc = Document(output_with_title): the reference of the new object
_apply_title_page(objects) == Len(objects) + 1

\* get_document
get_document == self_doc

PipelineStyles ==
    /\ pc = "styles"
    /\ LET r == StyleProcessor_apply(Document, config)
       IN /\ docs' = [docs EXCEPT ![self_doc] = r.doc]
          /\ pc' = execute(r.raised, pc, add_title_page).pc
          /\ raised' = execute(r.raised, pc, add_title_page).raised
          /\ calls' = Append(calls, [stage |-> "StyleProcessor", doc |-> self_doc,
                                     raised |-> r.raised])
    /\ UNCHANGED <<self_doc, input, config, add_title_page, result, fs, section_numbers, cursor>>

\* the MarginsProcessor of phase 1 and the one of phase 3
PipelineMargins ==
    /\ pc \in {"margins_1", "margins_3"}
    /\ LET r == MarginsProcessor_apply(Document, config)
       IN /\ docs' = [docs EXCEPT ![self_doc] = r.doc]
          /\ pc' = execute(r.raised, pc, add_title_page).pc
          /\ raised' = execute(r.raised, pc, add_title_page).raised
          /\ calls' = Append(calls, [stage |-> "MarginsProcessor", doc |-> self_doc,
                                     raised |-> r.raised])
    /\ UNCHANGED <<self_doc, input, config, add_title_page, result, fs, section_numbers, cursor>>

\* self.doc.save("temp_with_styles.docx")
PipelineSave ==
    /\ pc = "save"
    /\ fs' = [fs EXCEPT !["temp_with_styles.docx"] = <<Document>>]
    /\ pc' = execute("none", pc, add_title_page).pc
    /\ raised' = execute("none", pc, add_title_page).raised
    /\ calls' = Append(calls, [stage |-> "save", doc |-> self_doc, raised |-> "none"])
    /\ UNCHANGED <<docs, self_doc, input, config, add_title_page, result, section_numbers, cursor>>

PipelineTitle ==
    /\ pc = "title"
    /\ LET r == TitleProcessor_apply(fs, "temp_with_styles.docx", "doc_with_title.docx", config)
       IN /\ fs' = r.fs
          /\ pc' = execute(r.raised, pc, add_title_page).pc
          /\ raised' = execute(r.raised, pc, add_title_page).raised
          /\ calls' = Append(calls, [stage |-> "TitleProcessor", doc |-> self_doc,
                                     raised |-> r.raised])
    /\ UNCHANGED <<docs, self_doc, input, config, add_title_page, result, section_numbers, cursor>>

\* self.doc = Document("doc_with_title.docx")
PipelineLoad ==
    /\ pc = "load"
    /\ IF fs["doc_with_title.docx"] = <<>>
       THEN /\ pc' = execute("PackageNotFoundError", pc, add_title_page).pc
            /\ raised' = execute("PackageNotFoundError", pc, add_title_page).raised
            /\ calls' = Append(calls, [stage |-> "load", doc |-> self_doc,
                                       raised |-> "PackageNotFoundError"])
            /\ UNCHANGED <<docs, self_doc>>
       ELSE /\ docs' = Append(docs, fs["doc_with_title.docx"][1])
            /\ self_doc' = _apply_title_page(docs)
            /\ pc' = execute("none", pc, add_title_page).pc
            /\ raised' = execute("none", pc, add_title_page).raised
            /\ calls' = Append(calls, [stage |-> "load", doc |-> _apply_title_page(docs),
                                       raised |-> "none"])
    /\ UNCHANGED <<input, config, add_title_page, result, fs, section_numbers, cursor>>

PipelineHeaders ==
    /\ pc = "headers"
    /\ LET r == HeaderFooterProcessor_apply(Document, config)
       IN /\ docs' = [docs EXCEPT ![self_doc] = r.doc]
          /\ pc' = execute(r.raised, pc, add_title_page).pc
          /\ raised' = execute(r.raised, pc, add_title_page).raised
          /\ calls' = Append(calls, [stage |-> "HeaderFooterProcessor", doc |-> self_doc,
                                     raised |-> r.raised])
    /\ UNCHANGED <<self_doc, input, config, add_title_page, result, fs, section_numbers, cursor>>

\* what an earlier run may have left in doc_with_title.docx
StaleDocument == BodyDocument(<<NewParagraph(<<"o", "l", "d">>, "Normal")>>)

\* the preface of test_pipeline_e2e.py, two lines
S_Preface == <<"p", "\n", "q">>

PipelineParagraphs == {NewParagraph(T_a, "Heading 1"), NewParagraph(T_b, "Normal")}

Init ==
    /\ \E ps \in SeqsUpTo(PipelineParagraphs, MaxParas), n \in 1..MaxSections :
          /\ docs = <<[BodyDocument(ps) EXCEPT !.sections = [k \in 1..n |-> DefaultSection]]>>
          /\ input = docs[1]
    /\ self_doc = 1
    /\ add_title_page \in BOOLEAN
    /\ \E fonts \in {{"main", "appendices"}, {"appendices"}}, top \in {S_20mm, S_abc},
          title \in BOOLEAN, headers \in BOOLEAN, structure \in BOOLEAN :
          config = [DefaultConfig EXCEPT
                       !.fonts = fonts,
                       !.margins.top = top,
                       !.title_page.enabled = title,
                       !.headers.enabled = headers,
                       !.headers.left = <<"L">>,
                       !.headers.right = <<"R">>,
                       !.sections.enabled = structure,
                       !.toc.enabled = structure,
                       !.preface = [enabled |-> structure, content |-> S_Preface],
                       !.appendix.enabled = structure]
    /\ \E stale \in {<<>>, <<StaleDocument>>}, template \in {<<>>, <<RenderedTitle>>},
          temp \in {<<>>, <<RenderedTitle>>} :
          fs = [f \in {"temp_with_styles.docx", "doc_with_title.docx", "temp_title.docx",
                       "title_template.docx"} |->
                   IF f = "doc_with_title.docx" THEN stale
                   ELSE IF f = "title_template.docx" THEN template
                   ELSE IF f = "temp_title.docx" THEN temp
                   ELSE <<>>]
    /\ pc = "styles"
    /\ calls = <<>>
    /\ raised = "none"
    /\ section_numbers = <<0, 0, 0>>
    /\ cursor = 0
    /\ result = <<>>

Next ==
    \/ PipelineStyles
    \/ PipelineMargins
    \/ PipelineSave
    \/ PipelineTitle
    \/ PipelineLoad
    \/ PipelineHeaders

Spec == Init /\ [][Next]_vars

-----------------------------------------------------------------------------
(* Claims about the pipeline.                                              *)

StageNames == [i \in 1..Len(calls) |-> calls[i].stage]

IsPrefix(s, t) == Len(s) <= Len(t) /\ \A i \in 1..Len(s) : s[i] = t[i]

\* the run of test_pipeline_e2e.py: [Heading 1, Normal, Normal], no title page,
\* sections, TOC, preface and appendix enabled
EndToEndRun ==
    /\ pc = "returned"
    /\ ~add_title_page
    /\ ~config.title_page.enabled
    /\ config.sections.enabled /\ config.toc.enabled
    /\ config.preface.enabled /\ config.appendix.enabled
    /\ [i \in 1..Len(input.paragraphs) |-> input.paragraphs[i].style]
           = <<"Heading 1", "Normal", "Normal">>

RanAfterHeaders(stage) ==
    \E i, j \in 1..Len(calls) :
        i < j /\ calls[i].stage = "HeaderFooterProcessor" /\ calls[j].stage = stage

HasParagraph(text) ==
    \E k \in 1..Len(Document.paragraphs) : Text(Document.paragraphs[k]) = text

\* C1: the full pipeline, run without a title page on [Heading 1, Normal, Normal]
\* with sections, TOC, preface and appendix enabled, runs the section-numbering,
\* TOC, preface and appendix stages after the header stage; the final document
\* holds the preface lines, the heading renumbered to "1 <text>" and the TOC title.
C1_FullPipeline ==
    EndToEndRun =>
        /\ \A stage \in {"SectionProcessor", "TOCProcessor", "PrefaceProcessor",
                         "AppendixProcessor"} : RanAfterHeaders(stage)
        /\ HasParagraph(<<"1", " ">> \o Text(input.paragraphs[1]))
        /\ HasParagraph(config.toc.title)
        /\ \A k \in 1..Len(Split(config.preface.content, "\n")) :
               HasParagraph(Split(config.preface.content, "\n")[k])

ExpectedStages(with_title) ==
    <<"StyleProcessor", "MarginsProcessor">>
        \o (IF with_title THEN <<"save", "TitleProcessor", "load">> ELSE <<>>)
        \o <<"MarginsProcessor", "HeaderFooterProcessor">>

\* C2: in every execution the stages run one after the other in the order
\* StyleProcessor, MarginsProcessor, (with add_title_page only) save, TitleProcessor,
\* reload, MarginsProcessor, HeaderFooterProcessor: what has run so far is always
\* a prefix of that order, and a run that returns has run all of it.
C2_StageOrder ==
    /\ IsPrefix(StageNames, ExpectedStages(add_title_page))
    /\ pc = "returned" => StageNames = ExpectedStages(add_title_page)

C2_Witness ==
    /\ pc = "returned"
    /\ add_title_page
    /\ Len(calls) = 7

TitleStageDone ==
    /\ add_title_page
    /\ pc \in {"margins_3", "headers", "returned"}

LoadIndex == CHOOSE i \in 1..Len(calls) : calls[i].stage = "load"

\* C3: after the title stage of execute(add_title_page=True) the pipeline holds
\* a newly loaded document object, not the one given to the constructor; the
\* processors of phase 3 and get_document work on that object, the original
\* object is not touched again, and with the title page enabled the new
\* document is the rendered title followed by the saved body.
C3_DocumentReplaced ==
    TitleStageDone =>
        /\ get_document # 1
        /\ get_document = Len(docs)
        /\ \A i \in (LoadIndex + 1)..Len(calls) : calls[i].doc = get_document
        /\ <<docs[1]>> = fs["temp_with_styles.docx"]
        /\ config.title_page.enabled =>
               Texts(docs[get_document].paragraphs)
                   = Texts(RenderedTitle.paragraphs) \o Texts(docs[1].paragraphs)

C3_Witness ==
    /\ TitleStageDone
    /\ pc = "returned"
    /\ config.title_page.enabled
    /\ config.headers.enabled
    /\ Len(input.paragraphs) > 0
    /\ docs[2].sections # docs[1].sections

\* C4: when a stage raises, no later stage runs and execute leaves with
\* DocumentFormattingError; a run that returns, or that is still under way,
\* has no stage that raised.
C4_FailureStopsRun ==
    /\ \A i \in 1..Len(calls) :
           calls[i].raised # "none" =>
               /\ i = Len(calls)
               /\ pc = "failed"
               /\ raised = "DocumentFormattingError"
    /\ pc = "failed" => calls[Len(calls)].raised # "none"
    /\ pc # "failed" => raised = "none"

C4_Witness ==
    /\ pc = "failed"
    /\ raised = "DocumentFormattingError"
    /\ calls[Len(calls)].stage = "TitleProcessor"
    /\ calls[Len(calls)].raised = "ProcessorError"
    /\ Len(calls) = 4

-----------------------------------------------------------------------------
(* Claims about the extraction of headings and the TOC levels.             *)

KeptInToc(p) == IsHeading(p) /\ Depth(p) < config.toc.levels

\* the TOC line paragraphs of a document create_toc has filled
TocLineParagraphs ==
    SubSeq(Document.paragraphs, 3,
           Len(Document.paragraphs) - Len(input.paragraphs) - 1)

\* C11: _extract_headings returns exactly the paragraphs styled Heading 1, 2 or 3,
\* in document order; the TOC lines create_toc renders are, in order, those of the
\* headings whose depth is below toc.levels, and no line is rendered for a
\* heading of depth >= toc.levels.
C11_ExtractAndFilter ==
    /\ pc = "toc_extracted" => result = SelectSeq(input.paragraphs, IsHeading)
    /\ TocCreated =>
           /\ Len(TocLineParagraphs) = Len(SelectSeq(input.paragraphs, KeptInToc))
           /\ \A k \in 1..Len(TocLineParagraphs) :
                  SubSeq(Text(TocLineParagraphs[k]),
                         2 * Depth(SelectSeq(input.paragraphs, KeptInToc)[k]) + 1,
                         2 * Depth(SelectSeq(input.paragraphs, KeptInToc)[k])
                             + Len(Text(SelectSeq(input.paragraphs, KeptInToc)[k])))
                      = Text(SelectSeq(input.paragraphs, KeptInToc)[k])

C11_Witness ==
    /\ pc = "toc_done"
    /\ config.toc.enabled
    /\ config.toc.levels = 2
    /\ input.paragraphs = ExampleHeadingsDoc
    /\ Len(result) = 4
    /\ Len(TocLineParagraphs) = 3

-----------------------------------------------------------------------------
(* PrefaceProcessor (processors/preface_processor.py).                     *)

\* the loop `for i, line in enumerate(preface_lines)` with insert_index 0:
\* a blank line is skipped, any other is inserted before paragraph 0
RECURSIVE InsertPrefaceLines(_, _)
InsertPrefaceLines(paragraphs, preface_lines) ==
    IF preface_lines = <<>> THEN paragraphs
    ELSE IF Strip(Head(preface_lines)) = <<>>
    THEN InsertPrefaceLines(paragraphs, Tail(preface_lines))
    ELSE InsertPrefaceLines(
             InsertOrAppend(paragraphs, 0, NewParagraph(Strip(Head(preface_lines)), "Normal")),
             Tail(preface_lines))

_insert_preface_to_document(paragraphs, content) ==
    InsertPrefaceLines(paragraphs, Split(content, "\n"))

\* add_preface: the paragraphs of the document afterwards
add_preface(paragraphs, cfg) ==
    IF ~cfg.preface.enabled THEN paragraphs
    ELSE IF cfg.preface.content = <<>> \/ Strip(cfg.preface.content) = <<>> THEN paragraphs
    ELSE _insert_preface_to_document(paragraphs, cfg.preface.content)

PrefaceAdd ==
    /\ pc = "preface_idle"
    /\ docs' = [docs EXCEPT ![self_doc].paragraphs = add_preface(@, config)]
    /\ pc' = "preface_done"
    /\ calls' = Append(calls, [stage |-> "PrefaceProcessor", doc |-> self_doc])
    /\ UNCHANGED <<self_doc, input, config, add_title_page, result, fs, raised,
                   section_numbers, cursor>>

\* preface contents: none, blank, one line, two lines, a blank line between
\* two, padded lines, a line break only, three lines
PrefaceContents ==
    {<<>>, <<" ">>, <<"\n">>, <<"p">>, <<"p", "\n", "q">>, <<"p", "\n", "\n", "q">>,
     <<" ", "p", " ", "\n", "q">>, <<"p", "\n", "q", "\n", "r">>}

InitPreface ==
    /\ \E ps \in SeqsUpTo(PipelineParagraphs, MaxParas) :
          /\ docs = <<BodyDocument(ps)>>
          /\ input = BodyDocument(ps)
    /\ self_doc = 1
    /\ add_title_page = FALSE
    /\ \E en \in BOOLEAN, content \in PrefaceContents :
          config = [DefaultConfig EXCEPT !.preface = [enabled |-> en, content |-> content]]
    /\ fs = EmptyFs
    /\ pc = "preface_idle"
    /\ calls = <<>>
    /\ raised = "none"
    /\ section_numbers = <<0, 0, 0>>
    /\ cursor = 0
    /\ result = <<>>

NextPreface == PrefaceAdd

SpecPreface == InitPreface /\ [][NextPreface]_vars

-----------------------------------------------------------------------------
(* Claims about the preface.                                               *)

NonEmpty(s) == s # <<>>

\* the non-blank lines of a content, trimmed, in the order of the content
NonBlankLines(content) ==
    SelectSeq([k \in 1..Len(Split(content, "\n")) |-> Strip(Split(content, "\n")[k])],
              NonEmpty)

PrefaceAdded ==
    /\ pc = "preface_done"
    /\ config.preface.enabled
    /\ NonBlankLines(config.preface.content) # <<>>

\* C12: with the preface enabled and non-blank trimmed lines l1..ln, after
\* add_preface the document is l1..ln in the order of the content, each styled
\* Normal, followed by the original paragraphs unchanged, for an empty and for
\* a non-empty document alike.
C12_PrefaceInOrder ==
    PrefaceAdded =>
        Document.paragraphs =
            [k \in 1..Len(NonBlankLines(config.preface.content)) |->
                NewParagraph(NonBlankLines(config.preface.content)[k], "Normal")]
                \o input.paragraphs

-----------------------------------------------------------------------------
(* AppendixProcessor (processors/appendix_processor.py).                   *)

\* keyword in text_lower
Contains(s, keyword) ==
    \E i \in 1..(Len(s) - Len(keyword) + 1) : SubSeq(s, i, i + Len(keyword) - 1) = keyword

\* appendix_keywords; the Russian words are written in Latin letters
appendix_keywords ==
    {<<"a", "p", "p", "e", "n", "d", "i", "x">>,
     <<"a", "n", "n", "e", "x">>,
     <<"a", "p", "p", "e", "n", "d", "i", "c", "e", "s">>,
     <<"p", "r", "i", "l", "o", "z", "h", "e", "n", "i", "e">>,
     <<"p", "r", "i", "l", "o", "z", "h", "e", "n", "i", "i">>,
     <<"p", "r", "i", "l", "o", "z", "h", "e", "n", "i", "y", "u">>,
     <<"p", "r", "i", "l", "o", "z", "h", "e", "n", "i", "e", "m">>}

\* paragraph.style.name.startswith('Heading'), over the built-in style names
HeadingStyleNames ==
    {"Heading 1", "Heading 2", "Heading 3", "Heading 4", "Heading 5",
     "Heading 6", "Heading 7", "Heading 8", "Heading 9"}

\* the (idx, text) pairs of the appendix headings, idx 0-based, in order
RECURSIVE _find_appendix_headings(_, _)
_find_appendix_headings(paragraphs, i) ==
    IF i > Len(paragraphs) THEN <<>>
    ELSE IF /\ paragraphs[i].style \in HeadingStyleNames
            /\ \E keyword \in appendix_keywords :
                   Contains(Strip(Lower(Text(paragraphs[i]))), keyword)
    THEN <<[idx |-> i - 1, text |-> Text(paragraphs[i])]>>
             \o _find_appendix_headings(paragraphs, i + 1)
    ELSE _find_appendix_headings(paragraphs, i + 1)

_get_appendix_letter_unshifted(index) ==
    IF index < 26 THEN <<UpperChars[index + 1]>>
    ELSE IF index \div 26 < 26
    THEN <<UpperChars[(index \div 26) + 1], UpperChars[(index % 26) + 1]>>
    ELSE IntToStr(index + 1)

\* A..Z, then AA..ZZ counted from index 26, then the number
_get_appendix_letter(index) ==
    IF index < 26 THEN <<UpperChars[index + 1]>>
    ELSE IF (index - 26) \div 26 < 26
    THEN <<UpperChars[((index - 26) \div 26) + 1], UpperChars[((index - 26) % 26) + 1]>>
    ELSE IntToStr(index + 1)

S_Appendix == <<"A", "p", "p", "e", "n", "d", "i", "x", " ">>

\* the new text of the app_number-th appendix heading (app_number is 0-based)
AppendixText(app_number, original_text, numbering_style) ==
    S_Appendix
        \o (IF numbering_style = "numbers" THEN IntToStr(app_number + 1)
            ELSE _get_appendix_letter(app_number))
        \o (IF Find(original_text, ":") # -1
            THEN <<":", " ">>
                     \o Strip(SubSeq(original_text, Find(original_text, ":") + 2,
                                     Len(original_text)))
            ELSE <<>>)

\* paragraph.text = text: the runs are removed, one plain run holds the text
SetText(paragraph, text) ==
    [paragraph EXCEPT !.runs = NewParagraph(text, paragraph.style).runs]

_apply_appendix_numbering_by_index(paragraphs, appendix_headings, numbering_style) ==
    [i \in 1..Len(paragraphs) |->
        IF \E k \in 1..Len(appendix_headings) : appendix_headings[k].idx = i - 1
        THEN SetText(paragraphs[i], AppendixText(i - 1, Text(paragraphs[i]), numbering_style))
        ELSE paragraphs[i]]

\* for app_number, (idx, original_text) in enumerate(appendix_headings)
_apply_appendix_numbering(paragraphs, appendix_headings, numbering_style) ==
    [i \in 1..Len(paragraphs) |->
        IF \E k \in 1..Len(appendix_headings) : appendix_headings[k].idx = i - 1
        THEN SetText(paragraphs[i],
                     AppendixText(
                         (CHOOSE k \in 1..Len(appendix_headings) :
                              appendix_headings[k].idx = i - 1) - 1,
                         appendix_headings[CHOOSE k \in 1..Len(appendix_headings) :
                                               appendix_headings[k].idx = i - 1].text,
                         numbering_style))
        ELSE paragraphs[i]]

\* process_appendices: the paragraphs of the document afterwards
process_appendices(paragraphs, cfg) ==
    IF ~cfg.appendix.enabled THEN paragraphs
    ELSE IF _find_appendix_headings(paragraphs, 1) = <<>> THEN paragraphs
    ELSE _apply_appendix_numbering(paragraphs, _find_appendix_headings(paragraphs, 1),
                                   cfg.appendix.numbering_style)

AppendixProcess ==
    /\ pc = "appendix_idle"
    /\ docs' = [docs EXCEPT ![self_doc].paragraphs = process_appendices(@, config)]
    /\ pc' = "appendix_done"
    /\ calls' = Append(calls, [stage |-> "AppendixProcessor", doc |-> self_doc])
    /\ UNCHANGED <<self_doc, input, config, add_title_page, result, fs, raised,
                   section_numbers, cursor>>

\* heading texts: a keyword alone, upper case with a description, two colons
\* without blanks, no keyword
T_Appendix == <<"A", "p", "p", "e", "n", "d", "i", "x">>
T_ANNEX_d == <<"A", "N", "N", "E", "X", ":", " ", "d">>
T_annex_d_e == <<"a", "n", "n", "e", "x", ":", "d", ":", "e">>

AppendixParagraphs ==
    {NewParagraph(T_Appendix, "Heading 1"), NewParagraph(T_ANNEX_d, "Heading 2"),
     NewParagraph(T_annex_d_e, "Heading 4"), NewParagraph(T_a, "Heading 1"),
     NewParagraph(T_Appendix, "Normal")}

InitAppendix ==
    /\ \E ps \in SeqsUpTo(AppendixParagraphs, MaxParas) :
          /\ docs = <<BodyDocument(ps)>>
          /\ input = BodyDocument(ps)
    /\ self_doc = 1
    /\ add_title_page = FALSE
    /\ \E en \in BOOLEAN, style \in {"letters", "numbers"} :
          config = [DefaultConfig EXCEPT
                       !.appendix = [enabled |-> en, numbering_style |-> style]]
    /\ fs = EmptyFs
    /\ pc = "appendix_idle"
    /\ calls = <<>>
    /\ raised = "none"
    /\ section_numbers = <<0, 0, 0>>
    /\ cursor = 0
    /\ result = <<>>

NextAppendix == AppendixProcess

SpecAppendix == InitAppendix /\ [][NextAppendix]_vars

-----------------------------------------------------------------------------
(* Claims about the appendix headings.                                     *)

IsAppendixHeading(p) ==
    /\ p.style \in HeadingStyleNames
    /\ \E keyword \in appendix_keywords : Contains(Strip(Lower(Text(p))), keyword)

\* how many appendix headings stand before the i-th paragraph
AppendicesBefore(ps, i) == Cardinality({j \in 1..(i - 1) : IsAppendixHeading(ps[j])})

AppendixLabel(n) ==
    IF config.appendix.numbering_style = "numbers" THEN IntToStr(n + 1)
    ELSE <<UpperChars[n + 1]>>

AfterColon(t) == SubSeq(t, Find(t, ":") + 2, Len(t))

AppendixProcessed == pc = "appendix_done" /\ config.appendix.enabled

\* C13 (amended): with appendix enabled, every heading-styled paragraph holding
\* an appendix keyword gets, in order of appearance, the text "Appendix " + label
\* (running 1-based number, or letter of the running 0-based index), followed by
\* ": " and the text after the first colon stripped of surrounding blanks when
\* the heading had a colon; the other paragraphs and the count are unchanged.
C13_AppendixNumbering ==
    AppendixProcessed =>
        /\ Len(Document.paragraphs) = Len(input.paragraphs)
        /\ \A i \in 1..Len(input.paragraphs) :
               IF IsAppendixHeading(input.paragraphs[i])
               THEN /\ Document.paragraphs[i].style = input.paragraphs[i].style
                    /\ Text(Document.paragraphs[i]) =
                           S_Appendix
                               \o AppendixLabel(AppendicesBefore(input.paragraphs, i))
                               \o (IF Find(Text(input.paragraphs[i]), ":") # -1
                                   THEN <<":", " ">>
                                            \o Strip(AfterColon(Text(input.paragraphs[i])))
                                   ELSE <<>>)
               ELSE Document.paragraphs[i] = input.paragraphs[i]

C13_Witness ==
    /\ AppendixProcessed
    /\ Len(input.paragraphs) = 3
    /\ Text(input.paragraphs[1]) = T_a
    /\ Text(Document.paragraphs[2]) = S_Appendix \o <<"A">>
    /\ Text(Document.paragraphs[3]) = S_Appendix \o <<"B", ":", " ", "d">>

\* C13 as stated: the text after the first colon is appended as it stands
C13_Original ==
    AppendixProcessed =>
        /\ Len(Document.paragraphs) = Len(input.paragraphs)
        /\ \A i \in 1..Len(input.paragraphs) :
               IF IsAppendixHeading(input.paragraphs[i])
               THEN Text(Document.paragraphs[i]) =
                        S_Appendix
                            \o AppendixLabel(AppendicesBefore(input.paragraphs, i))
                            \o (IF Find(Text(input.paragraphs[i]), ":") # -1
                                THEN <<":", " ">> \o AfterColon(Text(input.paragraphs[i]))
                                ELSE <<>>)
               ELSE Document.paragraphs[i] = input.paragraphs[i]

-----------------------------------------------------------------------------
(* _get_appendix_letter called on its own, for every index up to MaxIndex. *)

AppendixLetter ==
    /\ pc = "letter_idle"
    /\ result' = _get_appendix_letter(input)
    /\ pc' = "letter_done"
    /\ UNCHANGED <<docs, self_doc, input, config, add_title_page, fs, calls, raised,
                   section_numbers, cursor>>

InitLetter ==
    /\ input \in 0..MaxIndex
    /\ docs = <<>>
    /\ self_doc = 0
    /\ add_title_page = FALSE
    /\ config = DefaultConfig
    /\ fs = EmptyFs
    /\ pc = "letter_idle"
    /\ calls = <<>>
    /\ raised = "none"
    /\ section_numbers = <<0, 0, 0>>
    /\ cursor = 0
    /\ result = <<>>

NextLetter == AppendixLetter

SpecLetter == InitLetter /\ [][NextLetter]_vars

\* C14: _get_appendix_letter maps 0..25 to 'A'..'Z' (0..4 to A, B, C, D, E), goes on
\* with the two-letter sequence AA, AB, ... from index 26 (26 -> AA, 27 -> AB),
\* and gives every index in 0..701 a label no other index in 0..701 has.
C14_AppendixLetters ==
    pc = "letter_done" =>
        /\ input < 26 => result = <<UpperChars[input + 1]>>
        /\ input \in 0..4 => result = <<<<"A", "B", "C", "D", "E">>[input + 1]>>
        /\ input = 26 => result = <<"A", "A">>
        /\ input = 27 => result = <<"A", "B">>
        /\ input \in 26..701 =>
               /\ Len(result) = 2
               /\ \E a, b \in 1..26 :
                      /\ result = <<UpperChars[a], UpperChars[b]>>
                      /\ 26 * (a - 1) + (b - 1) = input - 26
        /\ input <= 701 =>
               \A j \in 0..701 : j # input => _get_appendix_letter(j) # result

C14_Witness ==
    /\ pc = "letter_done"
    /\ input = 701
    /\ result = <<"Z", "Z">>

-----------------------------------------------------------------------------
(* Any one of the five switchable processors, invoked on its own on a      *)
(* document that already has body paragraphs, headings, appendix headings  *)
(* and header/footer content.                                              *)

ProcessorParagraphs ==
    {NewParagraph(T_a, "Heading 1"), NewParagraph(T_Appendix, "Heading 1"),
     NewParagraph(T_a, "Heading 2"), NewParagraph(T_b, "Normal")}

\* the styles of the document: those of the default template, or a document
\* whose style sheet has no Heading 1 (and so no paragraph of that style)
ProcessorStyles(ps) ==
    {BodyDocument(ps).styles} \cup
    IF \E k \in 1..Len(ps) : ps[k].style = "Heading 1" THEN {}
    ELSE {<<"Normal", "Heading 2", "Heading 3">>}

\* every feature switched on or off together, each with something to do
ProcessorConfig(en) ==
    [DefaultConfig EXCEPT
        !.sections = [enabled |-> en],
        !.toc = [@ EXCEPT !.enabled = en],
        !.preface = [enabled |-> en, content |-> <<"p">>],
        !.appendix = [@ EXCEPT !.enabled = en],
        !.headers = [left |-> <<"L">>, right |-> <<"R">>, page_numbers |-> TRUE,
                     enabled |-> en, right_parts |-> <<>>, left_parts |-> <<>>]]

ProcessorEntries ==
    {"section_idle", "toc_idle", "preface_idle", "appendix_idle", "headers_idle"}

InitProcessors ==
    /\ \E ps \in SeqsUpTo(ProcessorParagraphs, MaxParas),
          secs \in SeqsUpTo(HeaderSections, MaxSections) :
          /\ secs # <<>>
          /\ \E st \in ProcessorStyles(ps) :
                LET d == [BodyDocument(ps) EXCEPT !.sections = secs, !.styles = st]
                IN docs = <<d>> /\ input = d
    /\ self_doc = 1
    /\ add_title_page = FALSE
    /\ \E en \in BOOLEAN : config = ProcessorConfig(en)
    /\ fs = EmptyFs
    /\ pc \in ProcessorEntries
    /\ calls = <<>>
    /\ raised = "none"
    /\ section_numbers = <<0, 0, 0>>
    /\ cursor = 0
    /\ result = <<>>

NextProcessors ==
    \/ SectionStart
    \/ SectionStep
    \/ SectionFinish
    \/ TocCreate
    \/ PrefaceAdd
    \/ AppendixProcess
    \/ HeaderFooterApply

SpecProcessors == InitProcessors /\ [][NextProcessors]_vars

\* the switch that governs the processor of a stage
FeatureEnabled(stage) ==
    CASE stage = "SectionProcessor" -> config.sections.enabled
      [] stage = "TOCProcessor" -> config.toc.enabled
      [] stage = "PrefaceProcessor" -> config.preface.enabled
      [] stage = "AppendixProcessor" -> config.appendix.enabled
      [] stage = "HeaderFooterProcessor" -> config.headers.enabled

\* header and footer content of every section
HeaderFooterContent(doc) ==
    [i \in 1..Len(doc.sections) |->
        <<doc.sections[i].header, doc.sections[i].even_page_header,
          doc.sections[i].first_page_header, doc.sections[i].footer,
          doc.sections[i].even_page_footer, doc.sections[i].first_page_footer>>]

SameContent(doc, before) ==
    /\ Len(doc.paragraphs) = Len(before.paragraphs)
    /\ Len(doc.sections) = Len(before.sections)
    /\ Texts(doc.paragraphs) = Texts(before.paragraphs)
    /\ HeaderFooterContent(doc) = HeaderFooterContent(before)

\* C15: a processor invoked while its feature is disabled leaves the document
\* as it was: the same number of paragraphs and of sections, the same
\* paragraph texts, the same header and footer content
C15_DisabledIsNoOp ==
    \A k \in 1..Len(calls) :
        ~FeatureEnabled(calls[k].stage) => SameContent(Document, input)

\* a disabled header/footer run returned over a document that has headings,
\* an appendix heading and old header text
C15_Witness ==
    /\ pc = "headers_done"
    /\ calls # <<>>
    /\ ~config.headers.enabled
    /\ Len(input.paragraphs) = MaxParas
    /\ \E i \in 1..Len(input.sections) : input.sections[i].header = <<OldHFParagraph>>
    /\ SameContent(Document, input)

\* C16: whatever goes wrong inside a processor reaches the caller as a
\* ProcessorError, never as the exception that was raised inside
C16_ErrorsWrapped == raised \in {"none", "ProcessorError"}

-----------------------------------------------------------------------------
(* Claims about the temporary title file.                                  *)

\* the title stage ran with the title page enabled and raised nothing
TitleApplied ==
    /\ config.title_page.enabled
    /\ \E k \in 1..Len(calls) : calls[k].stage = "TitleProcessor" /\ calls[k].raised = "none"

\* C17: once TitleProcessor.apply has succeeded with the title page enabled,
\* there is no temp_title.docx in the working directory
C17_TempTitleDeleted == TitleApplied => fs["temp_title.docx"] = <<>>

\* the merged document has been written and the temporary file is gone
C17_Witness ==
    /\ TitleApplied
    /\ fs["doc_with_title.docx"] # <<>>
    /\ fs["doc_with_title.docx"][1].paragraphs[1] = RenderedTitle.paragraphs[1]
    /\ fs["temp_title.docx"] = <<>>

-----------------------------------------------------------------------------
(* Claims about the styles StyleProcessor sets up.                         *)

StyleCount(styles, style_name) ==
    Cardinality({k \in 1..Len(styles) : styles[k] = style_name})

\* the styles the configuration asks for
ConfiguredStyles ==
    {"Custom_Main", "Custom_Title", "Custom_Header"}
        \cup {heading_style_name(level) : level \in 0..(config.headerNum - 1)}
        \cup (IF "appendices" \in config.fonts THEN {"Custom_Appendix"} ELSE {})
        \cup (IF "notes" \in config.fonts THEN {"Custom_Notes"} ELSE {})
        \cup (IF \E k \in 1..Len(config.spacing.exceptions) :
                    config.spacing.exceptions[k] = "single"
              THEN {"Custom_FirstEdition"} ELSE {})

AllStyleNames ==
    {"Normal", "Custom_Main", "Custom_Appendix", "Custom_Notes", "Custom_Title",
     "Custom_Header", "Custom_FirstEdition"} \cup {heading_style_name(level) : level \in 0..8}

\* C18: however often apply has run on the document, no style exists twice,
\* after a run that succeeded every configured style exists exactly once,
\* and every run after the first leaves the style sheet as the first left it
C18_StylesIdempotent ==
    pc = "style_applied" =>
        /\ \A name \in AllStyleNames : StyleCount(Document.styles, name) <= 1
        /\ raised = "none" =>
              \A name \in ConfiguredStyles : StyleCount(Document.styles, name) = 1
        /\ Document.styles = StyleProcessor_apply(input, config).doc.styles

\* apply ran more than once with every optional style configured, on a style
\* sheet that had some of the styles and lacked others
C18_Witness ==
    /\ pc = "style_applied"
    /\ Len(calls) = MaxApplies
    /\ raised = "none"
    /\ ConfiguredStyles = AllStyleNames \ ({"Normal"} \cup {heading_style_name(level) : level \in 4..8})
    /\ StyleCount(input.styles, "Custom_Main") = 1
    /\ StyleCount(input.styles, "Custom_Title") = 0
    /\ Len(Document.styles) > Len(input.styles)

-----------------------------------------------------------------------------
(* Claims about successive section-numbering runs of one processor.        *)

\* the paragraphs a scan leaves when it starts at paragraph i with the given counters
RECURSIVE NumberedFrom(_, _, _)
NumberedFrom(paragraphs, i, numbers) ==
    IF i > Len(paragraphs) THEN paragraphs
    ELSE IF paragraphs[i].style \notin DOMAIN HEADING_LEVELS
    THEN NumberedFrom(paragraphs, i + 1, numbers)
    ELSE NumberedFrom(
             [paragraphs EXCEPT ![i] =
                 _process_heading(@, HEADING_LEVELS[@.style], numbers).paragraph],
             i + 1,
             _process_heading(paragraphs[i], HEADING_LEVELS[paragraphs[i].style],
                              numbers).numbers)

\* C19: an enabled run starts its scan with the counters at [0, 0, 0], so what
\* it makes of a document is what a new processor would make of it, whatever
\* the same processor numbered before; a second document whose first
\* paragraph is an unnumbered Heading 1 has it numbered "1" again
C19_RunsIndependent ==
    /\ (pc = "section_scan" /\ cursor = 1) => section_numbers = <<0, 0, 0>>
    /\ SectionRunDone =>
          /\ Document.paragraphs = NumberedFrom(input.paragraphs, 1, <<0, 0, 0>>)
          /\ (input.paragraphs # <<>> /\ input.paragraphs[1] = NewParagraph(T_a, "Heading 1"))
                => Text(Document.paragraphs[1]) = T_1_a

\* the second document of a processor that had counted beyond 1 in the first
C19_Witness ==
    /\ SectionRunDone
    /\ self_doc = 2
    /\ Texts(docs[1].paragraphs) = << <<"1", " ", "a">>, <<"2", " ", "a">> >>
    /\ input.paragraphs = <<NewParagraph(T_a, "Heading 1")>>
    /\ Texts(Document.paragraphs) = <<T_1_a>>

-----------------------------------------------------------------------------
(* ConfigParser.from_dict and DocumentConfig.from_dict (parsers/            *)
(* config_parser.py, models/config.py).  The source dictionary is given by *)
(* the set of required keys it has and by the values under them; a value   *)
(* is <<>> when the key is missing or holds an empty dictionary.           *)

\* _validate: the four required paths
required_paths == {"margins", "fonts", "spacing", "structure"}

_validate(data) == required_paths \subseteq data.keys

\* DocumentStructureConfig(): the defaults of the four dataclasses
DocumentStructureDefaults ==
    [sections |-> [enabled |-> TRUE],
     toc |-> [enabled |-> FALSE, title |-> S_TocTitle, page_numbers |-> TRUE, levels |-> 3],
     preface |-> [enabled |-> FALSE, content |-> <<>>],
     appendix |-> [enabled |-> FALSE, numbering_style |-> "letters"]]

\* DocumentConfig.from_dict: general and structure are read key by key;
\* StructureConfig is built from title_page, sections and numbering only, so
\* its document_structure is the default one
DocumentConfig_from_dict(data) ==
    [margins |-> IF data.margins = <<>> THEN DefaultConfig.margins ELSE data.margins[1],
     fonts |-> data.fonts,
     headerNum |-> DefaultConfig.headerNum,
     spacing |-> [exceptions |-> data.exceptions],
     title_page |-> IF data.title_page = <<>> THEN [enabled |-> TRUE] ELSE data.title_page[1],
     headers |-> IF data.headers = <<>> THEN DefaultConfig.headers ELSE data.headers[1],
     sections |-> DocumentStructureDefaults.sections,
     toc |-> DocumentStructureDefaults.toc,
     preface |-> DocumentStructureDefaults.preface,
     appendix |-> DocumentStructureDefaults.appendix]

\* what DocumentConfig.from_dict raises: MarginsConfig(**margins_data) is a
\* TypeError when the dictionary has a key that is no field of the dataclass
DocumentConfig_from_dict_raised(data) ==
    IF data.margins # <<>>
       /\ ~(DOMAIN data.margins[1] \subseteq {"left", "right", "top", "bottom"})
    THEN "TypeError" ELSE "none"

ConfigParser_from_dict_unvalidated(data) ==
    IF DocumentConfig_from_dict_raised(data) = "none"
    THEN [config |-> <<DocumentConfig_from_dict(data)>>, raised |-> "none"]
    ELSE [config |-> <<>>, raised |-> "ConfigValidationError"]

\* ConfigParser.from_dict: the configuration, or the error raised; whatever
\* DocumentConfig.from_dict raises is wrapped in ConfigValidationError
ConfigParser_from_dict(data) ==
    IF ~_validate(data)
    THEN [config |-> <<>>, raised |-> "ConfigValidationError"]
    ELSE IF DocumentConfig_from_dict_raised(data) = "none"
    THEN [config |-> <<DocumentConfig_from_dict(data)>>, raised |-> "none"]
    ELSE [config |-> <<>>, raised |-> "ConfigValidationError"]

ConfigFromDict ==
    /\ pc = "config_idle"
    /\ result' = ConfigParser_from_dict(input).config
    /\ raised' = ConfigParser_from_dict(input).raised
    /\ pc' = "config_done"
    /\ UNCHANGED <<docs, self_doc, input, config, add_title_page, fs, calls,
                   section_numbers, cursor>>

\* document.structure.document_structure of the source: absent, or the four parts
SourceStructures ==
    {<<>>} \cup
    {<<[sections |-> [enabled |-> s],
        toc |-> [enabled |-> t, title |-> S_TocTitle, page_numbers |-> TRUE, levels |-> 3],
        preface |-> [enabled |-> p, content |-> <<"p">>],
        appendix |-> [enabled |-> a, numbering_style |-> st]]>> :
        s \in BOOLEAN, t \in BOOLEAN, p \in BOOLEAN, a \in BOOLEAN,
        st \in {"letters", "numbers"}}

SourceDicts ==
    [keys : SUBSET required_paths,
     margins : {<<>>,
                <<[left |-> S_10mm, right |-> S_10mm, top |-> S_10mm, bottom |-> S_10mm]>>,
                <<[left |-> S_10mm, right |-> S_10mm, top |-> S_10mm, bottom |-> S_10mm,
                   inner |-> S_10mm]>>},
     fonts : {{"main"}},
     exceptions : {<<>>},
     title_page : {<<>>, <<[enabled |-> FALSE]>>},
     headers : {<<>>},
     document_structure : SourceStructures]

InitConfig ==
    /\ input \in SourceDicts
    /\ docs = <<>>
    /\ self_doc = 0
    /\ add_title_page = FALSE
    /\ config = DefaultConfig
    /\ fs = EmptyFs
    /\ pc = "config_idle"
    /\ calls = <<>>
    /\ raised = "none"
    /\ section_numbers = <<0, 0, 0>>
    /\ cursor = 0
    /\ result = <<>>

NextConfig == ConfigFromDict

SpecConfig == InitConfig /\ [][NextConfig]_vars

\* C20: a source that provides document.structure.document_structure is
\* parsed into a configuration whose sections, toc, preface and appendix
\* settings are those of the source (toc.enabled true in, True out)
C20_StructureParsed ==
    (pc = "config_done" /\ raised = "none" /\ input.document_structure # <<>>)
    => /\ result[1].sections = input.document_structure[1].sections
       /\ result[1].toc = input.document_structure[1].toc
       /\ result[1].preface = input.document_structure[1].preface
       /\ result[1].appendix = input.document_structure[1].appendix

-----------------------------------------------------------------------------
(* Claims about parse_measurement.                                         *)

\* the unit the suffix of a stripped, lowercased string names, and its length
SuffixUnit(v) ==
    IF EndsWith(v, <<"m", "m">>) THEN [unit |-> "mm", len |-> 2]
    ELSE IF EndsWith(v, <<"c", "m">>) THEN [unit |-> "cm", len |-> 2]
    ELSE IF EndsWith(v, <<"p", "t">>) THEN [unit |-> "pt", len |-> 2]
    ELSE IF EndsWith(v, <<"i", "n">>) THEN [unit |-> "in", len |-> 2]
    ELSE IF EndsWith(v, <<"\"">>) THEN [unit |-> "in", len |-> 1]
    ELSE [unit |-> "pt", len |-> 0]

\* unsigned decimal notation, blanks around it allowed
IsDecimal(s) ==
    LET t == Strip(s)
    IN /\ Len(Split(t, ".")) <= 2
       /\ \E i \in 1..Len(t) : IsDigit(t[i])
       /\ \A i \in 1..Len(t) : IsDigit(t[i]) \/ t[i] = "."

\* C21: parse_measurement returns the length in the unit the suffix names
\* (points for a number or an unsuffixed string) when what is left after the
\* suffix is a number, raises DocumentFormattingError when it is not, and
\* raises nothing else for a string
C21_ParseMeasurement ==
    (pc = "measure_done" /\ input.type = "str") =>
        LET v == Lower(Strip(input.text))
            rest == DropLast(v, SuffixUnit(v).len)
        IN /\ raised \in {"none", "DocumentFormattingError"}
           /\ IsDecimal(rest) =>
                 /\ result[1].ok
                 /\ result[1].emu = (FloatOf(rest).mant * EmuPerUnit(SuffixUnit(v).unit))
                                        \div Pow10(FloatOf(rest).frac)
           /\ ~IsDecimal(rest) => ~result[1].ok


\* C22: when one of the four required paths is missing, from_dict raises
\* ConfigValidationError and builds no configuration; whatever else fails in
\* from_dict reaches the caller as ConfigValidationError too
C22_ValidationFirst ==
    pc = "config_done" =>
        /\ ~(required_paths \subseteq input.keys) =>
              raised = "ConfigValidationError" /\ result = <<>>
        /\ raised \in {"none", "ConfigValidationError"}
        /\ raised = "none" <=> result # <<>>

\* a source that lacks only the spacing key and is fine otherwise was refused
C22_Witness ==
    /\ pc = "config_done"
    /\ input.keys = required_paths \ {"spacing"}
    /\ DocumentConfig_from_dict_raised(input) = "none"
    /\ raised = "ConfigValidationError"
    /\ result = <<>>

-----------------------------------------------------------------------------
(* Claims about the pipeline with the title page switched off.             *)

\* execute(add_title_page=False) on the input: styles, margins, margins, headers
StyledInput == StyleProcessor_apply(input, config)
MarginedInput == MarginsProcessor_apply(MarginsProcessor_apply(StyledInput.doc, config).doc, config)
WithoutTitle == HeaderFooterProcessor_apply(MarginedInput.doc, config)

WithoutTitleSucceeds ==
    /\ StyledInput.raised = "none"
    /\ MarginedInput.raised = "none"
    /\ WithoutTitle.raised = "none"

\* C23: with title_page.enabled False, execute(add_title_page=True) ends as
\* execute(add_title_page=False) does: where that run succeeds, this one
\* succeeds with the same document, whatever lies in the working directory
C23_DisabledTitleIsSkipped ==
    (pc \in {"returned", "failed"} /\ add_title_page /\ ~config.title_page.enabled
        /\ WithoutTitleSucceeds)
    => /\ pc = "returned"
       /\ docs[get_document] = WithoutTitle.doc

-----------------------------------------------------------------------------
(* Claims about numbering a document twice.                                *)

HeadingTexts(paragraphs) ==
    [i \in 1..Len(paragraphs) |->
        IF IsHeading(paragraphs[i]) THEN Text(paragraphs[i]) ELSE <<>>]

\* C24: the second of two runs over a document leaves every heading text as
\* the first run left it; no heading gets a second number in front
C24_NumberingIdempotent ==
    (SectionRunDone /\ result # <<>>)
    => HeadingTexts(Document.paragraphs) = HeadingTexts(result[1].paragraphs)

\* both runs are over; the first had numbered a plain and a padded heading
C24_Witness ==
    /\ SectionRunDone
    /\ result # <<>>
    /\ Len(input.paragraphs) = MaxParas
    /\ \E i \in 1..Len(input.paragraphs) :
          /\ input.paragraphs[i] = NewParagraph(T_pad_a, "Heading 2")
          /\ Text(result[1].paragraphs[i]) # Text(input.paragraphs[i])
          /\ Text(Document.paragraphs[i]) = Text(result[1].paragraphs[i])

-----------------------------------------------------------------------------
(* Claims about the order of the numbers of one run.                       *)

\* lexicographic order of two sequences of numbers, a proper prefix first
LexLess(a, b) ==
    \E k \in 1..(Len(b)) :
        /\ \A i \in 1..(k - 1) : i <= Len(a) /\ a[i] = b[i]
        /\ \/ k > Len(a)
           \/ a[k] < b[k]

NoneNumbered(paragraphs) ==
    \A i \in 1..Len(paragraphs) :
        IsHeading(paragraphs[i]) => ~StartsWithDigit(Strip(Text(paragraphs[i])))

\* the section number a heading carries in front of its text
AssignedNumber(p) == TokenValues(LeadingToken(Text(p)))

\* C25: in a run over headings none of which is numbered beforehand, the
\* counter vector grows in lexicographic order at every heading; in the end
\* the numbers of the headings grow strictly in document order, so no two
\* headings have the same number
C25_NumbersIncrease ==
    /\ [][(ScansHeading /\ NoneNumbered(input.paragraphs))
              => LexLess(section_numbers, section_numbers')]_vars
    /\ []((SectionRunDone /\ NoneNumbered(input.paragraphs)) =>
            \A i, j \in 1..Len(Document.paragraphs) :
                (i < j /\ IsHeading(Document.paragraphs[i]) /\ IsHeading(Document.paragraphs[j]))
                => /\ AssignedNumber(Document.paragraphs[i]) # AssignedNumber(Document.paragraphs[j])
                   /\ LexLess(AssignedNumber(Document.paragraphs[i]),
                              AssignedNumber(Document.paragraphs[j])))

\* a run over three headings that went down a level and up again
C25_Witness ==
    /\ SectionRunDone
    /\ NoneNumbered(input.paragraphs)
    /\ Len(input.paragraphs) = MaxParas
    /\ input.paragraphs[1].style = "Heading 1"
    /\ input.paragraphs[2].style = "Heading 2"
    /\ input.paragraphs[3].style = "Heading 1"
    /\ AssignedNumber(Document.paragraphs[2]) = <<1, 1>>
    /\ AssignedNumber(Document.paragraphs[3]) = <<2>>

-----------------------------------------------------------------------------
(* Claims about numbers below a missing parent.                            *)

EarlierShallower(paragraphs, i) ==
    \E k \in 1..(i - 1) : IsHeading(paragraphs[k]) /\ Depth(paragraphs[k]) < Depth(paragraphs[i])

EarlierNumbered(paragraphs, i) ==
    \E k \in 1..(i - 1) :
        IsHeading(paragraphs[k]) /\ StartsWithDigit(Strip(Text(paragraphs[k])))

\* a heading below the top level that is not numbered beforehand
OrphanCandidate(paragraphs, i) ==
    /\ IsHeading(paragraphs[i])
    /\ Depth(paragraphs[i]) > 0
    /\ ~StartsWithDigit(Strip(Text(paragraphs[i])))
    /\ ~EarlierShallower(paragraphs, i)

LeadingZeros(p) ==
    /\ Len(AssignedNumber(p)) = Depth(p) + 1
    /\ \A m \in 1..Depth(p) : AssignedNumber(p)[m] = 0
    /\ AssignedNumber(p)[Depth(p) + 1] >= 1

\* C26 (as amended): a heading at depth d > 0 that is not numbered beforehand
\* and comes before any shallower heading and before any heading that is
\* numbered beforehand gets a number whose d leading components are 0 (a
\* document that starts with a Heading 2 gets "0.1"): numbers are built from
\* the counters as they are, with no look at the parent levels
C26_ZeroParents ==
    SectionRunDone =>
        /\ \A i \in 1..Len(input.paragraphs) :
              (OrphanCandidate(input.paragraphs, i) /\ ~EarlierNumbered(input.paragraphs, i))
              => LeadingZeros(Document.paragraphs[i])
        /\ (input.paragraphs # <<>> /\ input.paragraphs[1] = NewParagraph(T_a, "Heading 2"))
              => Text(Document.paragraphs[1]) = <<"0", ".", "1", " ", "a">>

C26_Witness ==
    /\ SectionRunDone
    /\ Len(input.paragraphs) = MaxParas
    /\ input.paragraphs[1] = NewParagraph(T_a, "Heading 2")
    /\ Text(Document.paragraphs[1]) = <<"0", ".", "1", " ", "a">>
    /\ OrphanCandidate(input.paragraphs, 2)
    /\ LeadingZeros(Document.paragraphs[2])

\* C26 as stated: whatever headings of the same or a deeper level came before
C26_Original ==
    SectionRunDone =>
        \A i \in 1..Len(input.paragraphs) :
            OrphanCandidate(input.paragraphs, i) => LeadingZeros(Document.paragraphs[i])

-----------------------------------------------------------------------------
(* Claims about creating the table of contents more than once.             *)

\* the document the last call of create_toc started from
BeforeLastToc == IF result = <<>> THEN input.paragraphs ELSE result[1].paragraphs

TocTitleParagraph == NewParagraph(config.toc.title, "Heading 1")

-----------------------------------------------------------------------------
(* Claims about the rendered TOC lines.                                    *)

KeptPosition(i) == KeptInToc(input.paragraphs[i])

\* the positions (1-based) of the headings of the input that get a line
KeptPositions == SelectSeq([i \in 1..Len(input.paragraphs) |-> i], KeptPosition)

\* floor(paragraph_index / 55) + 1 for the 0-based index of a position
EstimatedPage(position) == ((position - 1) \div lines_per_page) + 1

\* C28: every TOC line is two blanks per level of depth and the heading text,
\* followed by "..." and the page number exactly when toc.page_numbers is on;
\* the page number is floor(index / 55) + 1 for the index the heading has in
\* the document before the TOC goes in, and is at least 1
C28_TocLines ==
    TocCreated =>
        /\ Len(TocLineParagraphs) = Len(KeptPositions)
        /\ \A k \in 1..Len(KeptPositions) :
              /\ EstimatedPage(KeptPositions[k]) >= 1
              /\ Text(TocLineParagraphs[k]) =
                    Indent(Depth(input.paragraphs[KeptPositions[k]]))
                        \o Text(input.paragraphs[KeptPositions[k]])
                        \o (IF config.toc.page_numbers
                            THEN <<".", ".", ".">> \o IntToStr(EstimatedPage(KeptPositions[k]))
                            ELSE <<>>)

-----------------------------------------------------------------------------
(* Claims about formatted header parts.                                    *)

RECURSIVE AllRuns(_)
\* the runs of a header, over all its paragraphs
AllRuns(element) ==
    IF element = <<>> THEN <<>> ELSE Head(element).runs \o AllRuns(Tail(element))

\* text, bold and italic of the runs, in order
RunFormats(runs) ==
    [i \in 1..Len(runs) |->
        [text |-> runs[i].text, bold |-> runs[i].bold, italic |-> runs[i].italic]]

PartFormats(text_parts) ==
    [i \in 1..Len(text_parts) |->
        [text |-> text_parts[i].text, bold |-> text_parts[i].bold,
         italic |-> text_parts[i].italic]]

\* the header holds one run per part, in list order, and is aligned
BuiltFromParts(element, text_parts, align) ==
    /\ element # <<>>
    /\ element[1].alignment = align
    /\ RunFormats(AllRuns(element)) = PartFormats(text_parts)

\* C29: a non-empty right_parts list makes every section's odd-page header
\* exactly one run per part in list order (text, bold, italic), aligned
\* right, with no plain string written; a non-empty left_parts list makes
\* the even-page header the same way, aligned left; a plain string appears
\* only where the parts list is empty
C29_PartsPrecedence ==
    (pc = "headers_done" /\ config.headers.enabled)
    => \A i \in 1..Len(Document.sections) :
          /\ config.headers.right_parts # <<>>
             => BuiltFromParts(Document.sections[i].header,
                               config.headers.right_parts, "right")
          /\ config.headers.left_parts # <<>>
             => BuiltFromParts(Document.sections[i].even_page_header,
                               config.headers.left_parts, "left")

-----------------------------------------------------------------------------
(* Claims about what section numbering leaves alone.                       *)

\* the text ends with the stripped text it had before
KeepsTitle(before, after) ==
    LET s == Strip(Text(before))
        t == Text(after)
    IN /\ Len(t) >= Len(s)
       /\ SubSeq(t, Len(t) - Len(s) + 1, Len(t)) = s

\* C30: apply_section_numbering changes only paragraphs styled exactly
\* Heading 1, Heading 2 or Heading 3: at every point of a run the document
\* has as many paragraphs as before, in the same order, every paragraph has
\* the style it had, and every paragraph of another style is as it was
C30_OnlyHeadingsChange ==
    /\ Len(Document.paragraphs) = Len(input.paragraphs)
    /\ \A i \in 1..Len(input.paragraphs) :
          /\ Document.paragraphs[i].style = input.paragraphs[i].style
          /\ input.paragraphs[i].style \notin HeadingStyles
             => Document.paragraphs[i] = input.paragraphs[i]
          /\ \/ Document.paragraphs[i] = input.paragraphs[i]
             \/ KeepsTitle(input.paragraphs[i], Document.paragraphs[i])

\* a finished run that numbered the headings around a Normal paragraph
C30_Witness ==
    /\ SectionRunDone
    /\ Len(input.paragraphs) = 3
    /\ input.paragraphs[2].style = "Normal"
    /\ Document.paragraphs[1] # input.paragraphs[1]
    /\ Document.paragraphs[2] = input.paragraphs[2]
    /\ Document.paragraphs[3] # input.paragraphs[3]
    /\ Document.paragraphs[3].style = "Heading 2"

=============================================================================
